---- MODULE Spec2Model ----
(***************************************************************************)
(* Rule distribution pipeline of the BlockHub background service worker    *)
(* (src/background.js): manifest fetch, CDN fetch with SHA-256 check,      *)
(* normalization, in-memory / chrome.storage caches, request coalescing,   *)
(* fallback ordering and RULES_UPDATED broadcasts.                         *)
(***************************************************************************)
EXTENDS Integers, Sequences, FiniteSets, TLC

(***************************************************************************)
(* JSON values.  An object is an ordered sequence of <<key, value>> pairs, *)
(* because JavaScript objects keep insertion order and JSON.stringify      *)
(* writes the keys in that order.                                          *)
(***************************************************************************)
JUndef == [t |-> "undef"]
JNull == [t |-> "null"]
JStr(s) == [t |-> "str", v |-> s]
JArr(s) == [t |-> "arr", v |-> s]
JObj(p) == [t |-> "obj", v |-> p]

IsArr(x) == x.t = "arr"
IsStr(x) == x.t = "str"
\* typeof x === 'object' && x !== null && !Array.isArray(x)
IsPlainObj(x) == x.t = "obj"

\* JavaScript truthiness of a JSON value
Truthy(x) ==
  /\ x.t \notin {"undef", "null"}
  /\ ~(x.t = "str" /\ x.v = "")
  /\ ~(x.t = "bool" /\ x.v = FALSE)

\* a || b
Or(a, b) == IF Truthy(a) THEN a ELSE b

HasKey(o, k) == o.t = "obj" /\ \E i \in 1..Len(o.v) : o.v[i][1] = k

\* o?.k : undefined when o is null/undefined or has no such property
Get(o, k) ==
  IF HasKey(o, k)
  THEN o.v[CHOOSE i \in 1..Len(o.v) : o.v[i][1] = k][2]
  ELSE JUndef

\* pairs[k] = val on an object: an existing key keeps its position
ObjSet(p, k, val) ==
  IF \E i \in 1..Len(p) : p[i][1] = k
  THEN [i \in 1..Len(p) |-> IF p[i][1] = k THEN <<k, val>> ELSE p[i]]
  ELSE Append(p, <<k, val>>)

RECURSIVE Flatten(_)
\* Array.prototype.flat over a sequence of sequences
Flatten(ss) == IF ss = <<>> THEN <<>> ELSE Head(ss) \o Flatten(Tail(ss))

\* String.prototype.toUpperCase on the locale names of the model
ToUpperCase(s) ==
  CASE s = "en" -> "EN"
    [] s = "fr" -> "FR"
    [] s = "locales" -> "LOCALES"
    [] s = "combined" -> "COMBINED"
    [] OTHER -> s

RECURSIVE Stringify(_)
\* JSON.stringify as a token sequence; properties whose value is undefined
\* are left out, as JSON.stringify does
Stringify(x) ==
  CASE x.t = "undef" -> <<>>
    [] x.t = "null" -> <<"null">>
    [] x.t = "str" -> <<"s", x.v>>
    [] x.t = "arr" ->
         <<"[">> \o Flatten([i \in 1..Len(x.v) |->
                       IF x.v[i].t = "undef" THEN <<"null">> ELSE Stringify(x.v[i])])
                 \o <<"]">>
    [] x.t = "obj" ->
         <<"{">> \o Flatten([i \in 1..Len(x.v) |->
                       IF x.v[i][2].t = "undef" THEN <<>>
                       ELSE <<"k", x.v[i][1]>> \o Stringify(x.v[i][2])])
                 \o <<"}">>

\* deepEqual(left, right): JSON.stringify(left) === JSON.stringify(right)
deepEqual(left, right) == Stringify(left) = Stringify(right)

RECURSIVE StructEq(_, _)
\* Structural equality of two JSON values: same members, whatever the order
\* in which the keys of an object were written
StructEq(a, b) ==
  CASE a.t # b.t -> FALSE
    [] a.t \in {"undef", "null"} -> TRUE
    [] a.t = "str" -> a.v = b.v
    [] a.t = "arr" ->
         /\ Len(a.v) = Len(b.v)
         /\ \A i \in 1..Len(a.v) : StructEq(a.v[i], b.v[i])
    [] a.t = "obj" ->
         /\ {a.v[i][1] : i \in 1..Len(a.v)} = {b.v[i][1] : i \in 1..Len(b.v)}
         /\ Len(a.v) = Len(b.v)
         /\ \A i \in 1..Len(a.v) : StructEq(a.v[i][2], Get(b, a.v[i][1]))

(***************************************************************************)
(* Rule schema normalizer.  A thrown Error is the value JErr(message).     *)
(***************************************************************************)
JErr(m) == [t |-> "error", v |-> m]
IsErr(x) == x.t = "error"

\* String.prototype.trim on the selector strings of the model
Trim(s) ==
  CASE s = " " -> ""
    [] s = " #ad" -> "#ad"
    [] OTHER -> s

\* ensureCategory(category): RULE_ENDPOINTS[category] is defined
RULE_CATEGORIES ==
  <<"aiTerms", "aiWidgetSelectors", "cookiePatterns", "killList", "preserveList">>
ensureCategory(category) == \E i \in 1..Len(RULE_CATEGORIES) : RULE_CATEGORIES[i] = category

ensureArray(value) == IF IsArr(value) THEN value ELSE JArr(<<>>)
ensureObject(value) == IF IsPlainObj(value) THEN value ELSE JObj(<<>>)

\* typeof x === 'string' ? x : null
StrOrNull(x) == IF IsStr(x) THEN x ELSE JNull
\* typeof x === 'string' ? x.trim() : null
TrimOrNull(x) == IF IsStr(x) THEN JStr(Trim(x.v)) ELSE JNull
\* String(x) on the truthy values of the model: a string, true, an object,
\* an array of at most one string
StringOf(x) ==
  CASE x.t = "str" -> x
    [] x.t = "bool" -> JStr("true")
    [] x.t = "obj" -> JStr("[object Object]")
    [] x.t = "arr" -> IF Len(x.v) = 0 THEN JStr("") ELSE x.v[1]
\* x ? String(x) : null
StringOrNull(x) == IF Truthy(x) THEN StringOf(x) ELSE JNull

\* typeof entry?.selector === 'string' ? entry.selector.trim() : ''
SelectorOf(entry) ==
  IF IsStr(Get(entry, "selector")) THEN Trim(Get(entry, "selector").v) ELSE ""

normalizeDomEntry(entry, category, index, locale) ==
  IF SelectorOf(entry) = ""
  THEN JErr("Missing selector in " \o category \o " entry at index " \o ToString(index))
  ELSE JObj(<<
    <<"id", IF Truthy(Get(entry, "id")) THEN Get(entry, "id")
            ELSE JStr(category \o "-" \o ToString(index))>>,
    <<"site", Or(Get(entry, "site"), JNull)>>,
    <<"feature", Or(Get(entry, "feature"), JNull)>>,
    <<"url", Or(Get(entry, "url"), JNull)>>,
    <<"selector", JStr(SelectorOf(entry))>>,
    <<"cssPath", TrimOrNull(Get(entry, "cssPath"))>>,
    <<"jsPath", TrimOrNull(Get(entry, "jsPath"))>>,
    <<"outerHTML", StrOrNull(Get(entry, "outerHTML"))>>,
    <<"text", StrOrNull(Get(entry, "text"))>>,
    <<"textContains", StrOrNull(Get(entry, "textContains"))>>,
    <<"fallbackPatterns",
      IF Truthy(Get(entry, "fallbackPatterns"))
      THEN JObj(<< <<"id", StringOrNull(Get(Get(entry, "fallbackPatterns"), "id"))>>,
                   <<"class", StringOrNull(Get(Get(entry, "fallbackPatterns"), "class"))>> >>)
      ELSE JNull>>,
    <<"fingerprints", ensureObject(Get(entry, "fingerprints"))>>,
    <<"notes", StrOrNull(Get(entry, "notes"))>>,
    <<"category", Or(Get(entry, "category"), JNull)>>,
    <<"locale", Or(locale, Or(Get(entry, "locale"), JNull))>>
  >>)

\* The first error of a sequence of results, or the array of the results
ArrayOrThrow(rs) ==
  IF \E i \in 1..Len(rs) : IsErr(rs[i])
  THEN rs[CHOOSE i \in 1..Len(rs) : IsErr(rs[i]) /\ \A j \in 1..(i - 1) : ~IsErr(rs[j])]
  ELSE JArr(rs)

normalizeDomEntryArray(entries, category) ==
  ArrayOrThrow([i \in 1..Len(ensureArray(entries).v) |->
     normalizeDomEntry(ensureArray(entries).v[i], category, i - 1, JNull)])

\* registerLocale(localeKey, title, entries) on the locales object built so far
registerLocale(locales, namespace, localeKey, title, entries) ==
  LET normalizedEntries ==
        ArrayOrThrow([i \in 1..Len(ensureArray(entries).v) |->
          normalizeDomEntry(ensureArray(entries).v[i], namespace \o "." \o localeKey,
                            i - 1, JStr(localeKey))])
  IN IF IsErr(normalizedEntries) THEN normalizedEntries
     ELSE JObj(ObjSet(locales.v, localeKey,
                 JObj(<< <<"title", Or(title, JNull)>>, <<"entries", normalizedEntries>> >>)))

\* section.locale || `SECTION_${index}`
SectionLocale(section, index) ==
  IF Truthy(Get(section, "locale")) THEN Get(section, "locale").v
  ELSE "SECTION_" \o ToString(index)

RECURSIVE RegisterSections(_, _, _, _)
\* rawSection.forEach((section, index) => registerLocale(...)), from index i on
RegisterSections(locales, namespace, sections, i) ==
  IF i > Len(sections) THEN locales
  ELSE LET next == registerLocale(locales, namespace,
                     ToUpperCase(SectionLocale(sections[i], i - 1)),
                     Or(Get(sections[i], "title"), JNull),
                     Get(sections[i], "entries"))
       IN IF IsErr(next) THEN next ELSE RegisterSections(next, namespace, sections, i + 1)

RECURSIVE RegisterMapping(_, _, _, _)
\* Object.entries(rawSection).forEach(([locale, data]) => ...), from pair i on
RegisterMapping(locales, namespace, pairs, i) ==
  IF i > Len(pairs) THEN locales
  ELSE LET data == pairs[i][2]
           next == IF IsArr(Get(data, "entries"))
                   THEN registerLocale(locales, namespace, ToUpperCase(pairs[i][1]),
                                       Or(Get(data, "title"), JNull), Get(data, "entries"))
                   ELSE registerLocale(locales, namespace, ToUpperCase(pairs[i][1]),
                                       JNull, data)
       IN IF IsErr(next) THEN next ELSE RegisterMapping(next, namespace, pairs, i + 1)

\* A shape test that takes no array for an array of groups
looksLikeSectionArrayNever(rawSection) == FALSE

\* rawSection.every(section => section && typeof section === 'object' &&
\*                  !Array.isArray(section) && Array.isArray(section.entries))
looksLikeSectionArray(rawSection) ==
  \A i \in 1..Len(rawSection.v) :
     IsPlainObj(rawSection.v[i]) /\ IsArr(Get(rawSection.v[i], "entries"))

\* Object.values(locales).flatMap(bucket => bucket[field])
CombinedOf(locales, field) ==
  JArr(Flatten([i \in 1..Len(locales.v) |-> Get(locales.v[i][2], field).v]))

BucketResult(locales, field) ==
  IF IsErr(locales) THEN locales
  ELSE JObj(<< <<"locales", locales>>, <<"combined", CombinedOf(locales, field)>> >>)

normalizeLanguageBuckets(rawSection, namespace) ==
  IF ~Truthy(rawSection) THEN BucketResult(JObj(<<>>), "entries")
  ELSE IF IsArr(rawSection)
  THEN IF looksLikeSectionArray(rawSection)
       THEN BucketResult(RegisterSections(JObj(<<>>), namespace, rawSection.v, 1), "entries")
       ELSE BucketResult(registerLocale(JObj(<<>>), namespace, "GLOBAL", JNull, rawSection),
                         "entries")
  ELSE IF IsPlainObj(rawSection)
  THEN BucketResult(RegisterMapping(JObj(<<>>), namespace, rawSection.v, 1), "entries")
  ELSE BucketResult(JObj(<<>>), "entries")

\* One element of a preserve-list locale group; JUndef stands for the null
\* that .filter(Boolean) removes
PreserveElement(entry, localeKey, entryIndex) ==
  IF SelectorOf(entry) = "" THEN JUndef
  ELSE JObj(<<
    <<"id", IF Truthy(Get(entry, "id")) THEN Get(entry, "id")
            ELSE JStr("preserve-" \o localeKey \o "-" \o ToString(entryIndex))>>,
    <<"site", Or(Get(entry, "site"), JNull)>>,
    <<"feature", Or(Get(entry, "feature"), JNull)>>,
    <<"url", Or(Get(entry, "url"), JNull)>>,
    <<"selector", JStr(SelectorOf(entry))>>,
    <<"cssPath", TrimOrNull(Get(entry, "cssPath"))>>,
    <<"jsPath", TrimOrNull(Get(entry, "jsPath"))>>,
    <<"outerHTML", StrOrNull(Get(entry, "outerHTML"))>>,
    <<"text", StrOrNull(Get(entry, "text"))>>,
    <<"textContains", StrOrNull(Get(entry, "textContains"))>>,
    <<"fallbackPatterns", Or(Get(entry, "fallbackPatterns"), JNull)>>,
    <<"fingerprints", ensureObject(Get(entry, "fingerprints"))>>,
    <<"notes", StrOrNull(Get(entry, "notes"))>>,
    <<"locale", JStr(localeKey)>>
  >>)

\* Array.prototype.filter(Boolean) on a sequence of JSON values
FilterBoolean(xs) == SelectSeq(xs, Truthy)

RECURSIVE RegisterPreserveGroups(_, _, _)
\* rawEntries.forEach((localeGroup, groupIndex) => ...), from group i on
RegisterPreserveGroups(locales, groups, i) ==
  IF i > Len(groups) THEN locales
  ELSE IF groups[i].t \in {"null", "undef"}
  THEN JErr("TypeError: cannot read properties of null (reading 'locale')")
  ELSE LET localeKey == ToUpperCase(SectionLocale(groups[i], i - 1))
           elements == ensureArray(Get(groups[i], "elements")).v
           normalizedElements ==
             FilterBoolean([k \in 1..Len(elements) |->
                              PreserveElement(elements[k], localeKey, k - 1)])
       IN RegisterPreserveGroups(
            JObj(ObjSet(locales.v, localeKey,
                   JObj(<< <<"title", Or(Get(groups[i], "title"), JNull)>>,
                           <<"elements", JArr(normalizedElements)>> >>))),
            groups, i + 1)

normalizePreserveListEntries(rawEntries) ==
  IF ~Truthy(rawEntries) \/ ~IsArr(rawEntries)
  THEN BucketResult(JObj(<<>>), "elements")
  ELSE BucketResult(RegisterPreserveGroups(JObj(<<>>), rawEntries.v, 1), "elements")

\* The first thrown error among the values of the pairs, or the object
ObjOrThrow(pairs) ==
  IF \E i \in 1..Len(pairs) : IsErr(pairs[i][2])
  THEN pairs[CHOOSE i \in 1..Len(pairs) :
               IsErr(pairs[i][2]) /\ \A j \in 1..(i - 1) : ~IsErr(pairs[j][2])][2]
  ELSE JObj(pairs)

\* The metadata object of the kill-list and of the preserve-list
MetadataOf(rawData) ==
  JObj(<< <<"version", Or(Get(rawData, "version"), JStr("1.0.0"))>>,
          <<"lastUpdated", Or(Get(rawData, "lastUpdated"), JNull)>> >>)

\* cookiePatterns: cmpsRaw.map(cmp => ({...}))
NormalizeCmp(cmp) ==
  JObj(<< <<"name", Or(Get(cmp, "name"), JStr("Unnamed CMP"))>>,
          <<"detect_selectors", ensureArray(Get(cmp, "detect_selectors"))>>,
          <<"reject_selectors", ensureArray(Get(cmp, "reject_selectors"))>>,
          <<"reject_text_patterns", ensureArray(Get(cmp, "reject_text_patterns"))>> >>)

\* aiWidgetSelectors: Object.entries(textPatternsRaw).reduce(...)
NormalizeTextPatterns(textPatternsRaw) ==
  JObj([i \in 1..Len(textPatternsRaw.v) |->
          <<textPatternsRaw.v[i][1], ensureArray(textPatternsRaw.v[i][2])>>])

normalizeRuleData(category, rawData) ==
  CASE ~ensureCategory(category) -> JErr("Unknown rule category: " \o category)
    [] category = "aiTerms" ->
         IF Len(ensureArray(Get(rawData, "conservative")).v) = 0
         THEN JErr("aiTerms.conservative must contain at least one entry")
         ELSE JObj(<< <<"conservative", ensureArray(Get(rawData, "conservative"))>>,
                      <<"aggressive", ensureArray(Get(rawData, "aggressive"))>> >>)
    [] category = "aiWidgetSelectors" ->
         IF Len(ensureArray(Get(rawData, "selectors")).v) = 0
         THEN JErr("aiWidgetSelectors.selectors must contain at least one entry")
         ELSE JObj(<< <<"selectors", ensureArray(Get(rawData, "selectors"))>>,
                      <<"platforms", ensureObject(Get(rawData, "platforms"))>>,
                      <<"text_patterns",
                        NormalizeTextPatterns(ensureObject(Get(rawData, "text_patterns")))>> >>)
    [] category = "cookiePatterns" ->
         IF Len(ensureArray(Get(rawData, "reject_phrases")).v) = 0
         THEN JErr("cookiePatterns.reject_phrases must contain at least one entry")
         ELSE JObj(<< <<"reject_phrases", ensureArray(Get(rawData, "reject_phrases"))>>,
                      <<"excluded_domains", ensureArray(Get(rawData, "excluded_domains"))>>,
                      <<"cmps", JArr([i \in 1..Len(ensureArray(Get(rawData, "cmps")).v) |->
                                       NormalizeCmp(ensureArray(Get(rawData, "cmps")).v[i])])>> >>)
    [] category = "killList" ->
         ObjOrThrow(<<
           <<"metadata", MetadataOf(rawData)>>,
           <<"locales", ensureArray(Get(rawData, "locales"))>>,
           <<"ads", normalizeLanguageBuckets(Get(rawData, "ads"), "killList.ads")>>,
           <<"aiTerms", normalizeLanguageBuckets(Get(rawData, "aiTerms"), "killList.aiTerms")>>,
           <<"aiWidgets",
             normalizeLanguageBuckets(Get(rawData, "aiWidgets"), "killList.aiWidgets")>>,
           <<"cookies", normalizeLanguageBuckets(Get(rawData, "cookies"), "killList.cookies")>>
         >>)
    [] category = "preserveList" ->
         ObjOrThrow(<<
           <<"metadata", MetadataOf(rawData)>>,
           <<"locales", ensureArray(Get(rawData, "locales"))>>,
           <<"entries", normalizePreserveListEntries(Get(rawData, "entries"))>>
         >>)

(***************************************************************************)
(* Raw payloads.  A text is the byte string of one response body: its      *)
(* name stands for the bytes, json is what JSON.parse makes of them (an    *)
(* error value when the bytes are no JSON).                                *)
(***************************************************************************)
Text(id, json) == [id |-> id, json |-> json]

\* computeSHA256(text): the hex digest; distinct byte strings have distinct
\* digests (collision resistance of SHA-256)
computeSHA256(text) == "sha256:" \o text.id

\* JSON.parse(rawText)
JSONParse(text) == text.json

InvalidJSON(id) == Text(id, JErr("Unexpected token < in JSON at position 0"))

Entry(sel) == JObj(<< <<"selector", JStr(sel)>> >>)

\* The documents the CDN can serve for a category: release 1, release 2,
\* release 1 re-serialized (other bytes, same members), a document that is
\* no JSON and a document without the category's primary list
ReleaseDoc(category, n) ==
  CASE category = "aiTerms" ->
         JObj(<< <<"conservative", JArr(IF n = 1 THEN <<JStr("ai")>>
                                        ELSE <<JStr("ai"), JStr("llm")>>)>>,
                 <<"aggressive", JArr(<<JStr("bot")>>)>> >>)
    [] category = "aiWidgetSelectors" ->
         JObj(<< <<"selectors", JArr(IF n = 1 THEN <<JStr("#chat")>>
                                     ELSE <<JStr("#chat"), JStr("#bot")>>)>>,
                 <<"platforms", JObj(<< <<"intercom", JStr("#ic")>>,
                                        <<"drift", JStr("#dr")>> >>)>> >>)
    [] category = "cookiePatterns" ->
         JObj(<< <<"reject_phrases", JArr(IF n = 1 THEN <<JStr("reject")>>
                                          ELSE <<JStr("reject"), JStr("refuser")>>)>>,
                 <<"cmps", JArr(<<JObj(<< <<"name", JStr("onetrust")>> >>)>>)>> >>)
    [] category = "killList" ->
         JObj(<< <<"version", JStr(IF n = 1 THEN "2.0.0" ELSE "2.1.0")>>,
                 <<"ads", JArr(<<JObj(<< <<"locale", JStr("en")>>,
                                         <<"title", JStr("English")>>,
                                         <<"entries", JArr(IF n = 1 THEN <<Entry("#ad")>>
                                                           ELSE <<Entry("#ad"), Entry("#promo")>>)>>
                                      >>)>>)>> >>)
    [] category = "preserveList" ->
         JObj(<< <<"version", JStr(IF n = 1 THEN "2.0.0" ELSE "2.1.0")>>,
                 <<"entries", JArr(<<JObj(<< <<"locale", JStr("en")>>,
                                             <<"elements", JArr(IF n = 1 THEN <<Entry("#keep")>>
                                                                ELSE <<Entry("#keep"), Entry("#nav")>>)>>
                                          >>)>>)>> >>)

\* The same members as release 1, written with the keys in another order
ReorderedDoc(category) ==
  CASE category = "aiWidgetSelectors" ->
         JObj(<< <<"platforms", JObj(<< <<"drift", JStr("#dr")>>,
                                        <<"intercom", JStr("#ic")>> >>)>>,
                 <<"selectors", JArr(<<JStr("#chat")>>)>> >>)
    [] OTHER ->
         JObj([i \in 1..Len(ReleaseDoc(category, 1).v) |->
                 ReleaseDoc(category, 1).v[Len(ReleaseDoc(category, 1).v) + 1 - i]])

\* A document that fails normalization of the category
SchemaBrokenDoc(category) ==
  CASE category = "killList" -> JObj(<< <<"ads", JArr(<<JObj(<< <<"id", JStr("x")>> >>)>>)>> >>)
    [] category = "preserveList" -> JObj(<< <<"entries", JArr(<<JNull>>)>> >>)
    [] OTHER -> JObj(<< <<"version", JStr("1")>> >>)

Release(category, n) == Text(category \o "@r" \o ToString(n), ReleaseDoc(category, n))
Reordered(category) == Text(category \o "@r1-reordered", ReorderedDoc(category))
Garbage(category) == InvalidJSON(category \o "@garbage")
SchemaBroken(category) == Text(category \o "@broken", SchemaBrokenDoc(category))

\* The packaged copy utils/<file>.json of FALLBACK_RULE_FILES
Packaged(category) == Text(category \o "@packaged", ReleaseDoc(category, 1))

(***************************************************************************)
(* Index manifest documents (index.json)                                   *)
(***************************************************************************)
FileInfo(category, sha) ==
  JObj(<< <<"url", JStr("cdn/v1/" \o category)>>, <<"sha256", sha>> >>)

DigestOfRelease1(category) == JStr(computeSHA256(Release(category, 1)))
DigestOfRelease2(category) == JStr(computeSHA256(Release(category, 2)))
EmptyDigest(category) == JStr("")

\* The sha256 a manifest of the given kind lists for a category
DigestListed(kind, category) ==
  CASE kind = "release1" -> DigestOfRelease1(category)
    [] kind = "release2" -> DigestOfRelease2(category)
    [] kind = "empty" -> EmptyDigest(category)

\* files: one entry per category
ManifestWith(kind) ==
  JObj(<< <<"version", JStr("1")>>,
          <<"files", JObj([i \in 1..Len(RULE_CATEGORIES) |->
               <<RULE_CATEGORIES[i],
                 FileInfo(RULE_CATEGORIES[i], DigestListed(kind, RULE_CATEGORIES[i]))>>])>> >>)

\* The manifest written for release n of every rule file
ManifestFor(n) == IF n = 1 THEN ManifestWith("release1") ELSE ManifestWith("release2")
\* A manifest whose sha256 fields are empty strings
EmptyShaManifest == ManifestWith("empty")
\* A manifest whose entries carry no sha256 field
NoShaManifest ==
  JObj(<< <<"version", JStr("1")>>,
          <<"files", JObj([i \in 1..Len(RULE_CATEGORIES) |->
               <<RULE_CATEGORIES[i],
                 JObj(<< <<"url", JStr("cdn/v1/" \o RULE_CATEGORIES[i])>> >>)>>])>> >>)
\* A manifest that lists no file
EmptyFilesManifest == JObj(<< <<"version", JStr("1")>>, <<"files", JObj(<<>>)>> >>)
\* A JSON document without a files object
NoFilesManifest == JObj(<< <<"version", JStr("1")>> >>)

(***************************************************************************)
(* Program constants                                                       *)
(***************************************************************************)
RULE_CACHE_TTL_MS == 21600000
FALLBACK_RETRY_MS == 900000
INDEX_CACHE_TTL_MS == 3600000

\* RULE_ENDPOINTS[category]
RULE_ENDPOINTS(category) == "https://cdn.jsdelivr.net/.../" \o category

(***************************************************************************)
(* Bounds of the model                                                     *)
(***************************************************************************)
\* number of retrieveRule calls that can be under way at once
MaxCalls == 2
\* number of times the clock is advanced
MaxTicks == 1
\* number of times the service worker is restarted
MaxRestarts == 1
\* number of open tabs
MaxTabs == 2
\* chrome.tabs.query({}): the ids of the open tabs
Tabs == 1..MaxTabs

\* The rule categories as a set
Categories == {RULE_CATEGORIES[i] : i \in 1..Len(RULE_CATEGORIES)}
Calls == 1..MaxCalls
\* The amounts by which the clock advances
TickSteps == {FALLBACK_RETRY_MS, INDEX_CACHE_TTL_MS, RULE_CACHE_TTL_MS}
\* Date.now() when the service worker first starts
StartTime == 1

(***************************************************************************)
(* Rule records                                                            *)
(***************************************************************************)
\* No record: undefined (Map.get miss) or null
NoRecord == [source |-> "none"]
JBool(b) == [t |-> "bool", v |-> b]

\* bytes is not a field of the program's record: it names the byte string
\* the record's data was parsed from
RuleRecord(category, data, source, url, fetchedAt, verified, hash, bytes) ==
  [category |-> category, data |-> data, source |-> source, url |-> url,
   fetchedAt |-> fetchedAt, lastError |-> JNull, lastFailureAt |-> 0,
   verified |-> verified, hash |-> hash, bytes |-> bytes]

\* cloneData(data): structuredClone keeps the members and the key order
cloneData(data) == data

\* An isRecordFresh whose comparison lets the limit itself through
isRecordFreshInclusive(record, time) ==
  IF record = NoRecord \/ record.fetchedAt = 0 THEN FALSE
  ELSE (time - record.fetchedAt) <=
         (IF record.source = "cdn" THEN RULE_CACHE_TTL_MS ELSE FALLBACK_RETRY_MS)

isRecordFresh(record, time) ==
  IF record = NoRecord \/ record.fetchedAt = 0 THEN FALSE
  ELSE (time - record.fetchedAt) <
         (IF record.source = "cdn" THEN RULE_CACHE_TTL_MS ELSE FALLBACK_RETRY_MS)

\* loadRuleFromStorage: the record to return for the stored value, NoRecord
\* for null; normalized is normalizeRuleData(category, stored.data)
LoadedRecord(category, stored, normalized) ==
  IF stored = NoRecord \/ ~Truthy(stored.data) THEN NoRecord
  ELSE IF IsErr(normalized) THEN NoRecord
  ELSE [stored EXCEPT !.category = category, !.data = normalized]

\* loadRuleFromStorage: whether the stored value is removed from storage
LoadRemoves(stored, normalized) ==
  /\ stored # NoRecord
  /\ Truthy(stored.data)
  /\ IsErr(normalized)

\* saveRuleToStorage: the value written under ruleCache:<category>
SavedRecord(record) == [record EXCEPT !.data = cloneData(record.data)]

(***************************************************************************)
(* State                                                                   *)
(***************************************************************************)
VARIABLES
  now,                 \* Date.now()
  inMemoryRuleCache,   \* category -> record
  pendingRuleFetches,  \* category -> the call whose fetchPromise is in the map, 0 for none
  storage,             \* chrome.storage.local, key ruleCache:<category>
  indexCache,          \* chrome.storage.local, key ruleCache:index
  calls,               \* the retrieveRule calls under way, their locals and position
  ticks,               \* how often the clock was advanced
  restarts,            \* how often the service worker was restarted
  served,              \* the categories the consumers of this run ask for
  ruleCacheStore,      \* content script: rule -> memoized payload
  preserveRuleStore,   \* content script: the preserve-list cache
  requests,            \* content script: the getRuleSet calls under way
  contentRules,        \* content script: the rules its features work with
  sweep                \* the refreshAllRules sweep under way and the last one's outcome

\* The state of the content scripts of a tab
client == <<ruleCacheStore, preserveRuleStore, requests, contentRules>>

vars == <<now, inMemoryRuleCache, pendingRuleFetches, storage, indexCache, calls,
          ticks, restarts, served, client, sweep>>

NoManifest == [fetchedAt |-> 0]

\* A call slot nobody uses.  Of memoryRecord the call keeps the data, which
\* is all it reads after line 651.  The last eight fields are not variables
\* of the program: net and sent count the network requests and the
\* broadcasts of the call, replaced is the payload that was cached when the
\* call got its record, path is the way it returned (memory, storage, join,
\* fetch), via the source its fetch operation ended with (cdn, stale,
\* fallback), body the bytes of the response body it received (in a call
\* that has thrown, the error of the fallback load), index what
\* fetchIndexManifest gave it (cached: the manifest of the cache, fetched:
\* the manifest just downloaded, null: null after a failure) and delivered
\* the tabs that received the RULES_UPDATED message of the call.
\* No RULES_UPDATED message was built
NoMessage == [type |-> "none", category |-> "none", source |-> "none", fetchedAt |-> 0]
\* broadcastRuleUpdate, lines 627-632: the message sent to the tabs
RulesUpdatedMessage(category, ruleRecord) ==
  [type |-> "RULES_UPDATED", category |-> category, source |-> ruleRecord.source,
   fetchedAt |-> ruleRecord.fetchedAt]

IdleCall ==
  [pc |-> "idle", category |-> "none", forceRefresh |-> FALSE,
   memoryData |-> JUndef, storedRecord |-> NoRecord, priorData |-> JNull,
   expectedHash |-> JNull, url |-> "", cdnError |-> "", record |-> NoRecord,
   joined |-> 0, net |-> 0, sent |-> 0, replaced |-> JNull, path |-> "none",
   via |-> "none", body |-> "", index |-> "none", delivered |-> {},
   message |-> NoMessage]

(***************************************************************************)
(* The content scripts of a tab (content/shared.js and its consumers)      *)
(***************************************************************************)
RULE_CACHE_DURATION == 60000
\* number of getRuleSet calls a tab can have under way at once
MaxRequests == 2
Requests == 1..MaxRequests
\* The tab whose content scripts are followed: the one opened last
ThisTab == MaxTabs

\* ruleCacheStore.get(rule) when the Map has no entry
NoEntry == [timestamp |-> 0]

\* The value `response` has when the listener never answered
NoResponse == [success |-> FALSE]

\* A getRuleSet call nobody has made.  pc is sent while the GET_RULE_SET
\* message is on its way, handling while the background works on it,
\* responded while the response is on its way back and returned when
\* getRuleSet has returned.  path and pre are not variables of the program:
\* path is the way the call returned (memo, response, stale, null, thrown)
\* and pre is TRUE when the payload it carries left the background before
\* an update to another payload whose RULES_UPDATED message the tab has
\* received since.  update is the payload of the RULES_UPDATED broadcast the
\* call reacts to (undefined for a call that reacts to none).
IdleRequest ==
  [pc |-> "idle", rule |-> "none", forceRefresh |-> FALSE, now |-> 0,
   cached |-> NoEntry, response |-> NoResponse, result |-> JUndef,
   path |-> "none", pre |-> FALSE, update |-> JUndef]

\* cookies.js, lines 18-20
NoCookieRules == [EXCLUDED_DOMAINS |-> <<>>, REJECT_PATTERNS |-> <<>>, CMP_CONFIGS |-> <<>>]

\* killlist_blocker.js, EMPTY_KILL_LIST (the buckets of the four features)
EMPTY_KILL_LIST ==
  [metadata |-> JObj(<<>>), ads |-> <<>>, aiTerms |-> <<>>, aiWidgets |-> <<>>,
   cookies |-> <<>>]

\* No refreshAllRules is under way and none has run.  index is the position
\* of the loop in RULE_CATEGORIES (0 outside a sweep), slot the retrieveRule
\* call the loop awaits, attempts what the calls of the sweep did so far,
\* response what the FORCE_RULE_REFRESH_ALL handler answered, runs the
\* number of sweeps started.
NoSweep ==
  [index |-> 0, slot |-> 0, forceRefresh |-> FALSE, attempts |-> <<>>,
   response |-> NoResponse, runs |-> 0]

\* The content scripts as they are when the page has just loaded them
Injected ==
  /\ ruleCacheStore = [c \in Categories |-> NoEntry]
  /\ preserveRuleStore = [entries |-> <<>>, lastLoadedAt |-> 0, loadingPromise |-> 0]
  /\ requests = [r \in Requests |-> IdleRequest]
  /\ contentRules = [cookies |-> NoCookieRules, KILLLIST |-> EMPTY_KILL_LIST]

\* The state of a service worker that starts for the first time
Fresh ==
  /\ now = StartTime
  /\ inMemoryRuleCache = [c \in Categories |-> NoRecord]
  /\ pendingRuleFetches = [c \in Categories |-> 0]
  /\ storage = [c \in Categories |-> NoRecord]
  /\ indexCache = NoManifest
  /\ calls = [i \in Calls |-> IdleCall]
  /\ ticks = 0
  /\ restarts = 0

\* The categories a run is about: one whose payload keeps the key order of
\* its input (platforms) and normalizes to a fixed point, and one with
\* locale groups
ServedCategories == {"aiWidgetSelectors", "preserveList"}

\* Consumers that ask for one category
Init ==
  /\ Fresh
  /\ \E c \in ServedCategories : served = {c}
  /\ Injected
  /\ sweep = NoSweep

\* The payload a consumer of the category is served from: the in-memory
\* record's, or the stored one when memory holds none
CachedPayload(mem, stored) ==
  IF mem # NoRecord THEN mem.data
  ELSE IF stored # NoRecord THEN stored.data
  ELSE JNull

\* record?.data
DataOf(record) == IF record = NoRecord THEN JUndef ELSE record.data

\* memoryRecord?.data || storedRecord?.data || null
PriorData(memoryData, storedRecord) == Or(memoryData, Or(DataOf(storedRecord), JNull))

\* return record / throw at the end of retrieveRule
\* (the locals of a call that has returned are dead and are left out)
Returned(cl, record, path) ==
  [IdleCall EXCEPT !.pc = "done", !.category = cl.category,
                   !.forceRefresh = cl.forceRefresh, !.record = cloneData(record),
                   !.path = path, !.net = cl.net, !.sent = cl.sent,
                   !.replaced = cl.replaced, !.via = cl.via, !.index = cl.index,
                   !.delivered = cl.delivered, !.message = cl.message]
Thrown(cl, message) ==
  [IdleCall EXCEPT !.pc = "failed", !.category = cl.category,
                   !.forceRefresh = cl.forceRefresh, !.cdnError = message,
                   !.path = "fetch", !.net = cl.net, !.sent = cl.sent]

\* A retrieveRule whose freshness checks ignore forceRefresh
ShortCircuitsForced(forceRefresh, record, time) == isRecordFresh(record, time)

\* !forceRefresh && isRecordFresh(record), lines 651 and 656
ShortCircuits(forceRefresh, record, time) == ~forceRefresh /\ isRecordFresh(record, time)

\* A retrieveRule that never looks for a fetch in flight
hasPendingNever(pending, category) == FALSE

\* pendingRuleFetches.has(category), line 661
hasPending(pending, category) == pending[category] # 0

\* retrieveRule, lines 679-696: the catch of the CDN attempt.  Gives the
\* call's next position and the category's in-memory record.
CdnFailure(cl, message, mem) ==
  IF cl.storedRecord # NoRecord /\ Truthy(cl.storedRecord.data)
  THEN LET record == [cl.storedRecord EXCEPT !.lastError = JStr(message),
                                             !.lastFailureAt = now]
       IN [call |-> [cl EXCEPT !.pc = "saveStale", !.cdnError = message, !.record = record,
                               !.via = "stale",
                               !.replaced = CachedPayload(mem, storage[cl.category])],
           mem |-> record]
  ELSE [call |-> [cl EXCEPT !.pc = "loadFallback", !.cdnError = message,
                            !.replaced = CachedPayload(mem, storage[cl.category])],
        mem |-> mem]

\* A fetchRuleFromCdn that gives up when there is no manifest
BeginRuleFetchNeedsManifest(cl, manifest, mem) ==
  IF ~Truthy(manifest)
  THEN CdnFailure(cl, "CDN fetch failed for " \o cl.category \o ": manifest unavailable", mem)
  ELSE
    LET fileInfo == Get(Get(manifest, "files"), cl.category)
        usesManifest == Truthy(manifest) /\ Truthy(Get(manifest, "files")) /\ Truthy(fileInfo)
        expectedHash == IF usesManifest THEN Get(fileInfo, "sha256") ELSE JNull
    IN IF usesManifest /\ ~IsStr(expectedHash)
       THEN \* expectedHash.substring(0, 16) throws outside the try block
            CdnFailure(cl, "TypeError: Cannot read properties of undefined", mem)
       ELSE [call |-> [cl EXCEPT !.pc = "fetchRule",
                                 !.url = IF usesManifest THEN Get(fileInfo, "url").v
                                         ELSE RULE_ENDPOINTS(cl.category),
                                 !.expectedHash = expectedHash,
                                 !.net = @ + 1],
             mem |-> mem]

\* fetchRuleFromCdn, lines 522-535: pick the URL and the expected hash from
\* the manifest and send the request
BeginRuleFetch(cl, manifest, mem) ==
  LET fileInfo == Get(Get(manifest, "files"), cl.category)
      usesManifest == Truthy(manifest) /\ Truthy(Get(manifest, "files")) /\ Truthy(fileInfo)
      expectedHash == IF usesManifest THEN Get(fileInfo, "sha256") ELSE JNull
  IN IF usesManifest /\ ~IsStr(expectedHash)
     THEN \* expectedHash.substring(0, 16) throws outside the try block
          CdnFailure(cl, "TypeError: Cannot read properties of undefined", mem)
     ELSE [call |-> [cl EXCEPT !.pc = "fetchRule",
                               !.url = IF usesManifest THEN Get(fileInfo, "url").v
                                       ELSE RULE_ENDPOINTS(cl.category),
                               !.expectedHash = expectedHash,
                               !.net = @ + 1],
           mem |-> mem]

\* A fetchRuleFromCdn that marks every record verified
CdnResultAllVerified(cl, rawText, normalized) ==
  IF Truthy(cl.expectedHash) /\ computeSHA256(rawText) # cl.expectedHash.v
  THEN JErr("CDN fetch failed for " \o cl.category \o ": Integrity check FAILED")
  ELSE IF IsErr(JSONParse(rawText))
  THEN JErr("CDN fetch failed for " \o cl.category \o ": Invalid JSON received from CDN")
  ELSE IF IsErr(normalized)
  THEN JErr("CDN fetch failed for " \o cl.category \o ": " \o normalized.v)
  ELSE RuleRecord(cl.category, normalized, "cdn", cl.url, now, JBool(TRUE),
                  cl.expectedHash, rawText.id)

\* A fetchRuleFromCdn that does not compare the digests
CdnResultUnchecked(cl, rawText, normalized) ==
  IF IsErr(JSONParse(rawText))
  THEN JErr("CDN fetch failed for " \o cl.category \o ": Invalid JSON received from CDN")
  ELSE IF IsErr(normalized)
  THEN JErr("CDN fetch failed for " \o cl.category \o ": " \o normalized.v)
  ELSE RuleRecord(cl.category, normalized, "cdn", cl.url, now,
                  JBool(cl.expectedHash # JNull), cl.expectedHash, rawText.id)

\* A fetchRuleFromCdn that parses the body before it compares the digests
CdnResultParsesFirst(cl, rawText, normalized) ==
  IF IsErr(JSONParse(rawText))
  THEN JErr("CDN fetch failed for " \o cl.category \o ": Invalid JSON received from CDN")
  ELSE IF Truthy(cl.expectedHash) /\ computeSHA256(rawText) # cl.expectedHash.v
  THEN JErr("CDN fetch failed for " \o cl.category \o ": Integrity check FAILED")
  ELSE IF IsErr(normalized)
  THEN JErr("CDN fetch failed for " \o cl.category \o ": " \o normalized.v)
  ELSE RuleRecord(cl.category, normalized, "cdn", cl.url, now,
                  JBool(cl.expectedHash # JNull), cl.expectedHash, rawText.id)

\* fetchRuleFromCdn, lines 542-583, on the response body rawText: the record,
\* or the error thrown; normalized is normalizeRuleData(category, json)
CdnResult(cl, rawText, normalized) ==
  IF Truthy(cl.expectedHash) /\ computeSHA256(rawText) # cl.expectedHash.v
  THEN JErr("CDN fetch failed for " \o cl.category \o ": Integrity check FAILED")
  ELSE IF IsErr(JSONParse(rawText))
  THEN JErr("CDN fetch failed for " \o cl.category \o ": Invalid JSON received from CDN")
  ELSE IF IsErr(normalized)
  THEN JErr("CDN fetch failed for " \o cl.category \o ": " \o normalized.v)
  ELSE RuleRecord(cl.category, normalized, "cdn", cl.url, now,
                  JBool(cl.expectedHash # JNull), cl.expectedHash, rawText.id)

RuleFromBody(cl, rawText) ==
  CdnResult(cl, rawText, normalizeRuleData(cl.category, JSONParse(rawText)))

\* loadFallbackRule, lines 602-619, on the packaged file: the record, or the
\* error thrown; normalized is normalizeRuleData(category, json)
FallbackResult(category, file, normalized) ==
  IF IsErr(JSONParse(file))
  THEN JErr("Invalid JSON in fallback file")
  ELSE IF IsErr(normalized)
  THEN normalized
  ELSE RuleRecord(category, normalized, "fallback-local",
                  "chrome-extension://utils/" \o category, now, JUndef, JUndef, file.id)

FallbackFromFile(category, file) ==
  FallbackResult(category, file, normalizeRuleData(category, JSONParse(file)))

\* Whether a value is a thrown error rather than a rule record
IsThrown(x) == "t" \in DOMAIN x

(***************************************************************************)
(* Actions: one per stretch of code between two suspension points          *)
(***************************************************************************)
\* What the network can answer to the manifest request
ManifestResponses ==
  {JErr("HTTP 503"), JErr("timed out"), JErr("Unexpected token"),
   NoFilesManifest, EmptyFilesManifest, NoShaManifest, EmptyShaManifest,
   ManifestFor(1), ManifestFor(2)}

\* What the network can answer to the rule file request: the kinds of body
BodyKinds == {"release1", "release2", "reordered", "garbage", "broken"}
Body(category, kind) ==
  CASE kind = "release1" -> Release(category, 1)
    [] kind = "release2" -> Release(category, 2)
    [] kind = "reordered" -> Reordered(category)
    [] kind = "garbage" -> Garbage(category)
    [] kind = "broken" -> SchemaBroken(category)

\* No call has returned without its response being sent: the response goes
\* out in the microtask checkpoint in which retrieveRule returns, so nothing
\* else runs in between
Quiet == \A j \in Calls : calls[j].pc \notin {"done", "failed"}

\* retrieveRule, lines 647-655, up to its first await: the in-memory record
\* answers, or the stored record is read
CallStart(category, forceRefresh, memoryRecord) ==
  LET cl == [IdleCall EXCEPT !.category = category, !.forceRefresh = forceRefresh,
                             !.memoryData = DataOf(memoryRecord)]
  IN IF ShortCircuits(forceRefresh, memoryRecord, now)
     THEN Returned([cl EXCEPT !.replaced = DataOf(memoryRecord)], memoryRecord, "memory")
     ELSE [cl EXCEPT !.pc = "loadStorage"]

\* retrieveRule, lines 647-655: GET_RULE_SET (or a sweep) calls
\* retrieveRule(category, {forceRefresh})
retrieveRule(i, category, forceRefresh) ==
  /\ Quiet
  /\ category \in served
  /\ calls[i].pc = "idle"
  /\ \A j \in 1..(i - 1) : calls[j].pc # "idle"
  /\ calls' = [calls EXCEPT ![i] =
                  CallStart(category, forceRefresh, inMemoryRuleCache[category])]
  /\ UNCHANGED <<now, inMemoryRuleCache, pendingRuleFetches, storage, indexCache,
                 ticks, restarts, served, sweep>>

\* retrieveRule called for a consumer whose content script is not followed
StartCall(i, category, forceRefresh) == retrieveRule(i, category, forceRefresh) /\ UNCHANGED client

\* retrieveRule, lines 655-669 and 713-718: the storage read answers; serve
\* the stored record, join the pending fetch or start one (fetchRuleFromCdn
\* runs up to its read of the manifest cache)
StorageAnswers(i, cl, c, storedRecord, removes) ==
  /\ Quiet
  /\ cl.pc = "loadStorage"
  /\ storage' = IF removes THEN [storage EXCEPT ![c] = NoRecord] ELSE storage
  /\ IF storedRecord # NoRecord /\ ShortCircuits(cl.forceRefresh, storedRecord, now)
     THEN /\ inMemoryRuleCache' = [inMemoryRuleCache EXCEPT ![c] = storedRecord]
          /\ calls' = [calls EXCEPT ![i] =
                         Returned([cl EXCEPT !.replaced =
                                     CachedPayload(inMemoryRuleCache[c], storage[c])],
                                  storedRecord, "storage")]
          /\ UNCHANGED pendingRuleFetches
     ELSE IF hasPending(pendingRuleFetches, c)
     THEN /\ calls' = [calls EXCEPT ![i] =
                         [cl EXCEPT !.pc = "join", !.memoryData = JUndef,
                                    !.joined = pendingRuleFetches[c]]]
          /\ UNCHANGED <<inMemoryRuleCache, pendingRuleFetches>>
     ELSE /\ calls' = [calls EXCEPT ![i] =
                         [cl EXCEPT !.pc = "manifestCache",
                                    !.memoryData = JUndef,
                                    !.storedRecord = storedRecord,
                                    !.priorData = PriorData(cl.memoryData, storedRecord)]]
          /\ pendingRuleFetches' = [pendingRuleFetches EXCEPT ![c] = i]
          /\ UNCHANGED inMemoryRuleCache
  /\ UNCHANGED <<now, indexCache, ticks, restarts, served, client, sweep>>

StorageRead(i, c, normalized) ==
  StorageAnswers(i, calls[i], c, LoadedRecord(c, storage[c], normalized),
                 LoadRemoves(storage[c], normalized))

LoadStorage(i) ==
  StorageRead(i, calls[i].category,
              normalizeRuleData(calls[i].category, DataOf(storage[calls[i].category])))

\* What the extension package can hold under FALLBACK_RULE_FILES[category]:
\* the packaged rule file, nothing (the fetch answers with an HTTP error),
\* bytes that are no JSON, or a document that fails normalization
FallbackKinds == {"packaged", "missing", "garbage", "broken"}
FallbackFile(category, kind) ==
  CASE kind = "packaged" -> Packaged(category)
    [] kind = "garbage" -> InvalidJSON(category \o "@packaged-garbage")
    [] kind = "broken" -> Text(category \o "@packaged-broken", SchemaBrokenDoc(category))

\* One step of the fetch operation of call i that ends in `next`, a pair
\* [call, mem]: the call's new locals and the category's in-memory record
FetchStep(i, next) ==
  /\ calls' = [calls EXCEPT ![i] = next.call]
  /\ inMemoryRuleCache' = [inMemoryRuleCache EXCEPT ![calls[i].category] = next.mem]

\* A fetchIndexManifest that still uses a cached manifest that is one hour old
ManifestCacheInclusive(i) ==
  LET cl == calls[i]
      mem == inMemoryRuleCache[cl.category]
  IN /\ Quiet
     /\ cl.pc = "manifestCache"
     /\ IF indexCache # NoManifest /\ (now - indexCache.fetchedAt) <= INDEX_CACHE_TTL_MS
        THEN FetchStep(i, BeginRuleFetch([cl EXCEPT !.index = "cached"], indexCache.data, mem))
        ELSE FetchStep(i, [call |-> [cl EXCEPT !.pc = "fetchManifest", !.net = @ + 1],
                           mem |-> mem])
     /\ UNCHANGED <<now, pendingRuleFetches, storage, indexCache, ticks, restarts, served, client, sweep>>

\* fetchIndexManifest, lines 472-483: the read of the manifest cache answers
ManifestCache(i) ==
  LET cl == calls[i]
      mem == inMemoryRuleCache[cl.category]
  IN /\ Quiet
     /\ cl.pc = "manifestCache"
     /\ IF indexCache # NoManifest /\ (now - indexCache.fetchedAt) < INDEX_CACHE_TTL_MS
        THEN FetchStep(i, BeginRuleFetch([cl EXCEPT !.index = "cached"], indexCache.data, mem))
        ELSE FetchStep(i, [call |-> [cl EXCEPT !.pc = "fetchManifest", !.net = @ + 1],
                           mem |-> mem])
     /\ UNCHANGED <<now, pendingRuleFetches, storage, indexCache, ticks, restarts, served, client, sweep>>

\* fetchIndexManifest, lines 483-510: the manifest request answers (or fails,
\* or times out); a manifest with a files object is written to the cache
FetchManifest(i, response) ==
  LET cl == calls[i]
      mem == inMemoryRuleCache[cl.category]
      valid == ~IsErr(response) /\ Truthy(Get(response, "files"))
                                /\ Get(response, "files").t \in {"obj", "arr"}
  IN /\ Quiet
     /\ cl.pc = "fetchManifest"
     /\ indexCache' = IF valid THEN [data |-> response, fetchedAt |-> now] ELSE indexCache
     /\ FetchStep(i, BeginRuleFetch([cl EXCEPT !.index = IF valid THEN "fetched" ELSE "null"],
                                     IF valid THEN response ELSE JNull, mem))
     /\ UNCHANGED <<now, pendingRuleFetches, storage, ticks, restarts, served, client, sweep>>

\* The rule request fails: HTTP status, network error or timeout
FetchRuleFails(i, message) ==
  LET cl == calls[i]
  IN /\ Quiet
     /\ cl.pc = "fetchRule"
     /\ FetchStep(i, CdnFailure(cl, "CDN fetch failed for " \o cl.category \o ": " \o message,
                                inMemoryRuleCache[cl.category]))
     /\ UNCHANGED <<now, pendingRuleFetches, storage, indexCache, ticks, restarts, served, client, sweep>>

\* fetchRuleFromCdn, lines 542-583, and retrieveRule, lines 669-671: the body
\* arrives; the record is put in the in-memory cache and its save is sent
BodyArrives(i, cl, c, body, result) ==
  /\ Quiet
  /\ cl.pc = "fetchRule"
  /\ IF IsThrown(result)
     THEN FetchStep(i, CdnFailure([cl EXCEPT !.body = body], result.v,
                                  inMemoryRuleCache[c]))
     ELSE FetchStep(i, [call |-> [cl EXCEPT !.pc = "saveRule", !.record = result,
                                    !.via = "cdn", !.body = body,
                                    !.replaced = CachedPayload(inMemoryRuleCache[c],
                                                               storage[c])],
                        mem |-> result])
  /\ UNCHANGED <<now, pendingRuleFetches, storage, indexCache, ticks, restarts, served, client, sweep>>

FetchRule(i, kind) ==
  BodyArrives(i, calls[i], calls[i].category, Body(calls[i].category, kind).id,
              RuleFromBody(calls[i], Body(calls[i].category, kind)))

\* A retrieveRule without the finally block of line 722
SettleKeepsEntry(i, settled) ==
  /\ calls' = [j \in Calls |->
       IF j = i THEN settled
       ELSE IF calls[j].pc = "join" /\ calls[j].joined = i
       THEN [settled EXCEPT !.forceRefresh = calls[j].forceRefresh, !.path = "join",
                            !.net = calls[j].net, !.sent = calls[j].sent,
                            !.replaced = JNull, !.via = "none", !.index = "none",
                            !.delivered = {}, !.message = NoMessage]
       ELSE calls[j]]
  /\ UNCHANGED pendingRuleFetches

\* The fetch operation of call i settles: the promise leaves the map, the
\* call returns (or throws), and so does every call that awaits the promise
\* (line 662); the continuations run in the same microtask checkpoint
Settle(i, settled) ==
  /\ calls' = [j \in Calls |->
       IF j = i THEN settled
       ELSE IF calls[j].pc = "join" /\ calls[j].joined = i
       THEN [settled EXCEPT !.forceRefresh = calls[j].forceRefresh, !.path = "join",
                            !.net = calls[j].net, !.sent = calls[j].sent,
                            !.replaced = JNull, !.via = "none", !.index = "none",
                            !.delivered = {}, !.message = NoMessage]
       ELSE calls[j]]
  /\ pendingRuleFetches' = [pendingRuleFetches EXCEPT ![calls[i].category] = 0]

\* A saveRuleToStorage that keeps the records of all categories under one key
SaveRuleOneKey(i) ==
  LET cl == calls[i]
  IN /\ Quiet
     /\ cl.pc = "saveRule"
     /\ storage' = [d \in Categories |-> SavedRecord(cl.record)]
     /\ IF ~Truthy(cl.priorData) \/ ~deepEqual(cl.priorData, cl.record.data)
        THEN /\ calls' = [calls EXCEPT ![i] = [cl EXCEPT !.pc = "queryTabs"]]
             /\ UNCHANGED pendingRuleFetches
        ELSE Settle(i, Returned(cl, cl.record, "fetch"))
     /\ UNCHANGED <<now, inMemoryRuleCache, indexCache, ticks, restarts, served, client, sweep>>

\* saveRuleToStorage answers, retrieveRule lines 671-678: broadcast when the
\* payload differs from priorData
SaveRule(i) ==
  LET cl == calls[i]
  IN /\ Quiet
     /\ cl.pc = "saveRule"
     /\ storage' = [storage EXCEPT ![cl.category] = SavedRecord(cl.record)]
     /\ IF ~Truthy(cl.priorData) \/ ~deepEqual(cl.priorData, cl.record.data)
        THEN /\ calls' = [calls EXCEPT ![i] = [cl EXCEPT !.pc = "queryTabs"]]
             /\ UNCHANGED pendingRuleFetches
        ELSE Settle(i, Returned(cl, cl.record, "fetch"))
     /\ UNCHANGED <<now, inMemoryRuleCache, indexCache, ticks, restarts, served, client, sweep>>

\* broadcastRuleUpdate, lines 626-641: chrome.tabs.query answers and the
\* RULES_UPDATED message is sent to every tab
QueryTabs(i) ==
  /\ Quiet
  /\ calls[i].pc = "queryTabs"
  /\ calls' = [calls EXCEPT ![i] =
       [@ EXCEPT !.pc = "sendMessages", !.sent = @ + 1,
                 !.message = RulesUpdatedMessage(calls[i].category, calls[i].record)]]
  /\ UNCHANGED <<now, inMemoryRuleCache, pendingRuleFetches, storage, indexCache,
                 ticks, restarts, served, client, sweep>>

\* A broadcast that fails as soon as one delivery fails: the rejection
\* reaches the catch of the CDN attempt
SendMessagesFailFast(i, failing) ==
  /\ Quiet
  /\ calls[i].pc = "sendMessages"
  /\ IF failing = {}
     THEN /\ Settle(i, Returned([calls[i] EXCEPT !.delivered = Tabs], calls[i].record, "fetch"))
          /\ UNCHANGED inMemoryRuleCache
     ELSE /\ FetchStep(i, CdnFailure(calls[i], "Could not establish connection",
                                     inMemoryRuleCache[calls[i].category]))
          /\ UNCHANGED pendingRuleFetches
  /\ UNCHANGED <<now, storage, indexCache, ticks, restarts, served, client, sweep>>

\* broadcastRuleUpdate, lines 634-641: every sendMessage has settled; those
\* to the tabs in failing were rejected (a tab without content script) and
\* their rejection was caught
broadcastRuleUpdate(i, failing) ==
  /\ Quiet
  /\ calls[i].pc = "sendMessages"
  /\ Settle(i, Returned([calls[i] EXCEPT !.delivered = Tabs \ failing],
                        calls[i].record, "fetch"))
  /\ UNCHANGED <<now, inMemoryRuleCache, storage, indexCache, ticks, restarts, served, sweep>>

\* A broadcast to tabs whose content scripts are not followed
SendMessages(i, failing) == broadcastRuleUpdate(i, failing) /\ UNCHANGED client

\* retrieveRule, lines 690-691: the save of the kept record answers
SaveStale(i) ==
  /\ Quiet
  /\ calls[i].pc = "saveStale"
  /\ storage' = [storage EXCEPT ![calls[i].category] = SavedRecord(calls[i].record)]
  /\ Settle(i, Returned(calls[i], calls[i].record, "fetch"))
  /\ UNCHANGED <<now, inMemoryRuleCache, indexCache, ticks, restarts, served, client, sweep>>

\* loadFallbackRule, lines 596-619, and retrieveRule, lines 696-711: the
\* packaged file is read (or cannot be)
\* A retrieveRule that caches what it has when the fallback cannot be used
FallbackAnswersCachesFailure(i, cl, c, loaded) ==
  /\ Quiet
  /\ cl.pc = "loadFallback"
  /\ IF IsThrown(loaded)
     THEN /\ Settle(i, Thrown(cl, "No rule data available for " \o c))
          /\ inMemoryRuleCache' =
               [inMemoryRuleCache EXCEPT ![c] =
                  RuleRecord(c, JNull, "fallback-local", "", now, JUndef, JUndef, "")]
     ELSE /\ calls' = [calls EXCEPT ![i] =
                         [cl EXCEPT !.pc = "saveFallback", !.via = "fallback",
                                    !.record = [loaded EXCEPT !.lastError = JStr(cl.cdnError),
                                                              !.lastFailureAt = now]]]
          /\ inMemoryRuleCache' =
               [inMemoryRuleCache EXCEPT ![c] = [loaded EXCEPT !.lastError = JStr(cl.cdnError),
                                                                !.lastFailureAt = now]]
          /\ UNCHANGED pendingRuleFetches
  /\ UNCHANGED <<now, storage, indexCache, ticks, restarts, served, client, sweep>>

FallbackAnswers(i, cl, c, loaded) ==
  /\ Quiet
  /\ cl.pc = "loadFallback"
  /\ IF IsThrown(loaded)
     THEN /\ Settle(i, [Thrown(cl, "No rule data available for " \o c \o ". CDN error: "
                                      \o cl.cdnError \o ". Fallback error: " \o loaded.v)
                          EXCEPT !.body = loaded.v])
          /\ UNCHANGED inMemoryRuleCache
     ELSE /\ calls' = [calls EXCEPT ![i] =
                         [cl EXCEPT !.pc = "saveFallback", !.via = "fallback",
                                    !.record = [loaded EXCEPT !.lastError = JStr(cl.cdnError),
                                                              !.lastFailureAt = now]]]
          /\ inMemoryRuleCache' =
               [inMemoryRuleCache EXCEPT ![c] = [loaded EXCEPT !.lastError = JStr(cl.cdnError),
                                                                !.lastFailureAt = now]]
          /\ UNCHANGED pendingRuleFetches
  /\ UNCHANGED <<now, storage, indexCache, ticks, restarts, served, client, sweep>>

LoadFallback(i, kind) ==
  FallbackAnswers(i, calls[i], calls[i].category,
                  IF kind = "missing" THEN JErr("Failed to load fallback")
                  ELSE FallbackFromFile(calls[i].category,
                                        FallbackFile(calls[i].category, kind)))

\* A retrieveRule that returns the fallback record without saving it
SaveFallbackUnsaved(i) ==
  /\ Quiet
  /\ calls[i].pc = "saveFallback"
  /\ Settle(i, Returned(calls[i], calls[i].record, "fetch"))
  /\ UNCHANGED <<now, inMemoryRuleCache, storage, indexCache, ticks, restarts, served, client, sweep>>

\* retrieveRule, lines 703-705: the save of the fallback record answers
SaveFallback(i) ==
  /\ Quiet
  /\ calls[i].pc = "saveFallback"
  /\ storage' = [storage EXCEPT ![calls[i].category] = SavedRecord(calls[i].record)]
  /\ Settle(i, Returned(calls[i], calls[i].record, "fetch"))
  /\ UNCHANGED <<now, inMemoryRuleCache, indexCache, ticks, restarts, served, client, sweep>>

\* A handler that answers success whatever retrieveRule did
ResponseAlwaysSuccess(cl) ==
  [success |-> TRUE, rule |-> DataOf(cl.record), source |-> cl.record.source,
   lastError |-> JNull]

\* GET_RULE_SET, lines 889-896 and 909-912: the response to the consumer for
\* a call that has returned (its record) or thrown (its message)
ResponseOf(cl) ==
  IF cl.pc = "failed"
  THEN [success |-> FALSE, error |-> cl.cdnError]
  ELSE [success |-> TRUE, rule |-> cl.record.data, source |-> cl.record.source,
        fetchedAt |-> cl.record.fetchedAt, lastError |-> Or(cl.record.lastError, JNull)]

\* GET_RULE_SET, lines 889-896 and 909-912: sendResponse for every call of
\* the handler that has returned or thrown
sendResponse ==
  /\ \E j \in Calls \ {sweep.slot} : calls[j].pc \in {"done", "failed"}
  /\ calls' = [j \in Calls |->
       IF j # sweep.slot /\ calls[j].pc \in {"done", "failed"} THEN IdleCall
       ELSE calls[j]]
  /\ UNCHANGED <<now, inMemoryRuleCache, pendingRuleFetches, storage, indexCache,
                 ticks, restarts, served, sweep>>

\* The response to a consumer whose content script is not followed
Respond == sendResponse /\ UNCHANGED client

\* Time passes.  The clock of the model moves by a quarter of an hour or
\* more at once, and only between calls: a call is over within seconds
\* (every request has the 8 s of RULE_FETCH_TIMEOUT_MS to answer).
Tick(step) ==
  /\ \A j \in Calls : calls[j].pc = "idle"
  /\ ticks < MaxTicks
  /\ now' = now + step
  /\ ticks' = ticks + 1
  /\ UNCHANGED <<inMemoryRuleCache, pendingRuleFetches, storage, indexCache, calls, restarts,
                 served, client, sweep>>

\* The browser stops the service worker and starts it again: the module
\* state is lost, chrome.storage.local is kept
Restart ==
  /\ Quiet
  /\ restarts < MaxRestarts
  /\ restarts' = restarts + 1
  /\ inMemoryRuleCache' = [c \in Categories |-> NoRecord]
  /\ pendingRuleFetches' = [c \in Categories |-> 0]
  /\ calls' = [i \in Calls |-> IdleCall]
  /\ UNCHANGED <<now, storage, indexCache, ticks, served, client, sweep>>

\* The steps of the calls under way
Step ==
  \/ \E i \in Calls : LoadStorage(i)
  \/ \E i \in Calls : ManifestCache(i)
  \/ \E i \in Calls, r \in ManifestResponses : FetchManifest(i, r)
  \/ \E i \in Calls, m \in {"HTTP 503"} : FetchRuleFails(i, m)
  \/ \E i \in Calls, k \in BodyKinds : FetchRule(i, k)
  \/ \E i \in Calls : SaveRule(i)
  \/ \E i \in Calls : QueryTabs(i)
  \/ \E i \in Calls, failing \in SUBSET Tabs : SendMessages(i, failing)
  \/ \E i \in Calls : SaveStale(i)
  \/ \E i \in Calls, k \in FallbackKinds : LoadFallback(i, k)
  \/ \E i \in Calls : SaveFallback(i)
  \/ Respond

\* Overlapping calls within the life of one service worker, in a stretch of
\* time in which no record changes its freshness
Next ==
  \/ \E i \in Calls, c \in Categories, f \in BOOLEAN : StartCall(i, c, f)
  \/ Step

Spec == Init /\ [][Next]_vars

\* retrieveRule called while no other call is under way
StartAlone(c, f) ==
  /\ \A j \in Calls : calls[j].pc = "idle"
  /\ StartCall(1, c, f)

\* One call after the other, over the hours and across restarts
NextSeq ==
  \/ \E c \in Categories, f \in BOOLEAN : StartAlone(c, f)
  \/ Step
  \/ \E s \in TickSteps : Tick(s)
  \/ Restart

SpecSeq == Init /\ [][NextSeq]_vars

(***************************************************************************)
(* Properties                                                              *)
(***************************************************************************)
\* The positions of a call that runs the fetch operation of its category:
\* inside fetchRuleFromCdn, and in the rest of the fetchPromise
CdnPcs == {"manifestCache", "fetchManifest", "fetchRule"}
OperationPcs == CdnPcs \cup {"saveRule", "queryTabs", "sendMessages", "saveStale",
                             "loadFallback", "saveFallback"}

\* The digest of the byte string named b
DigestOfBytes(b) == computeSHA256(Text(b, JNull))

\* The records a consumer can be served: cached in memory, kept in storage,
\* or returned by a call
ServedRecords ==
  ({inMemoryRuleCache[c] : c \in Categories} \cup {storage[c] : c \in Categories}
     \cup {calls[i].record : i \in Calls}) \ {NoRecord}

IntegrityError(category) == "CDN fetch failed for " \o category \o ": Integrity check FAILED"

\* A call got a body whose digest is not the non-empty digest of the manifest
Mismatch(cl) ==
  /\ cl.body # ""
  /\ Truthy(cl.expectedHash)
  /\ DigestOfBytes(cl.body) # cl.expectedHash.v

\* C2: when the manifest gives a digest and the fetched body's digest
\* differs, the CDN attempt fails with the integrity error, no record with
\* that digest built from other bytes is in the in-memory cache, in storage
\* or in a call's hands, and the call goes on with the stored record (with
\* lastError set) or with the packaged fallback.
C2_IntegrityRejects ==
  /\ \A r \in ServedRecords :
       r.source = "cdn" /\ Truthy(r.hash) => DigestOfBytes(r.bytes) = r.hash.v
  /\ \A i \in Calls :
       LET cl == calls[i]
       IN Mismatch(cl) =>
            /\ cl.pc \in {"saveStale", "loadFallback", "saveFallback"}
            /\ cl.cdnError = IntegrityError(cl.category)
            /\ cl.pc = "saveStale" =>
                 /\ cl.storedRecord # NoRecord
                 /\ cl.record = [cl.storedRecord EXCEPT
                                   !.lastError = JStr(IntegrityError(cl.category)),
                                   !.lastFailureAt = cl.record.lastFailureAt]
            /\ cl.pc = "saveFallback" =>
                 /\ cl.record.source = "fallback-local"
                 /\ cl.record.bytes = Packaged(cl.category).id

\* C2 happens: a body failed the integrity check and the stored record is
\* kept
C2_Witness ==
  \E i \in Calls :
    /\ Mismatch(calls[i])
    /\ calls[i].pc = "saveStale"
    /\ calls[i].cdnError = IntegrityError(calls[i].category)

\* The records that are cached or returned to a consumer and come from the CDN
CdnRecords == {r \in ServedRecords : r.source = "cdn"}

C4_NoBroadcastWhenEqual ==
  \A i \in Calls :
    calls[i].via = "cdn" /\ calls[i].sent > 0
      => ~StructEq(calls[i].record.data, calls[i].replaced)

\* C5: a successful remote refresh whose normalized payload differs from the
\* payload that was cached, or that found nothing cached, has sent exactly
\* one RULES_UPDATED broadcast when it returns.
C5_BroadcastWhenChanged ==
  \A i \in Calls :
    /\ calls[i].sent <= 1
    /\ (/\ calls[i].pc = "done"
        /\ calls[i].via = "cdn"
        /\ ~StructEq(calls[i].record.data, calls[i].replaced))
         => calls[i].sent = 1

\* C6: when the remote fetch fails, nothing is cached and the packaged
\* fallback loads, so that the cached payload changes from nothing to the
\* fallback payload, a RULES_UPDATED broadcast has been sent when the call
\* returns.
C6_BroadcastOnFallback ==
  \A i \in Calls :
    (/\ calls[i].pc = "done"
     /\ calls[i].via = "fallback"
     /\ calls[i].replaced = JNull)
      => calls[i].sent = 1

\* C7: a call without forceRefresh that finds a CDN record younger than six
\* hours, in memory or (with nothing in memory) in storage, makes no network
\* request and returns data equal to the cached payload; such a call never
\* gets as far as the fetch operation.
C7_FreshServedUnchanged ==
  \A i \in Calls :
    LET cl == calls[i]
    IN /\ (/\ cl.pc = "done"
           /\ ~cl.forceRefresh
           /\ cl.path \in {"memory", "storage"}
           /\ cl.record.source = "cdn")
            => /\ cl.net = 0
               /\ StructEq(cl.record.data, cl.replaced)
       /\ (/\ cl.pc \in OperationPcs
           /\ ~cl.forceRefresh
           /\ cl.storedRecord # NoRecord
           /\ cl.storedRecord.source = "cdn")
            => ~isRecordFresh(cl.storedRecord, now)

\* C8: a call with forceRefresh = true never returns through a freshness
\* check: it returns from a fetch operation, its own or the one it joined;
\* and a fetch operation whose CDN attempt failed, forced or not, goes on
\* with the stored record when there is one and with the packaged fallback
\* only when there is none.
C8_ForcedNeverShortCircuits ==
  \A i \in Calls :
    LET cl == calls[i]
    IN /\ cl.forceRefresh /\ cl.pc \in {"done", "failed"} => cl.path \in {"fetch", "join"}
       /\ cl.forceRefresh /\ cl.pc = "join" => calls[cl.joined].pc \in OperationPcs
       /\ cl.pc = "saveStale" => cl.storedRecord # NoRecord /\ Truthy(cl.storedRecord.data)
       /\ cl.pc \in {"loadFallback", "saveFallback"} => cl.storedRecord = NoRecord

\* C8 happens: a forced call has its rule request on the network while
\* memory and storage hold a fresh CDN record
C8_Witness ==
  \E i \in Calls :
    /\ calls[i].forceRefresh
    /\ calls[i].pc = "fetchRule"
    /\ inMemoryRuleCache[calls[i].category].source = "cdn"
    /\ isRecordFresh(inMemoryRuleCache[calls[i].category], now)
    /\ storage[calls[i].category].source = "cdn"
    /\ isRecordFresh(storage[calls[i].category], now)

\* C9: when the CDN attempt fails and a record was cached for the category
\* (in memory or in storage), the record kept and returned has the cached
\* record's data and source, and the packaged fallback is not loaded.
C9_StaleKeptUnchanged ==
  \A i \in Calls :
    LET cl == calls[i]
    IN /\ cl.pc = "saveStale"
            => /\ StructEq(cl.record.data, cl.replaced)
               /\ cl.record.source = storage[cl.category].source
       /\ cl.pc \in {"loadFallback", "saveFallback"} => cl.replaced = JNull

\* The payload of the packaged file of a category
PackagedPayload(category) == normalizeRuleData(category, JSONParse(Packaged(category)))

\* C10: when the CDN attempt fails and no record is cached for the category,
\* the packaged fallback is loaded (never a stored record kept); if that
\* succeeds the record, with source fallback-local, the normalized payload
\* of the packaged file and the CDN error in lastError, is in the in-memory
\* cache, is written to storage and is returned.
C10_FallbackCachedAndStored ==
  \A i \in Calls :
    LET cl == calls[i]
        c == cl.category
        isFallback == /\ cl.record.source = "fallback-local"
                      /\ cl.record.data = PackagedPayload(c)
                      /\ IsStr(cl.record.lastError)
                      /\ cl.record.lastError.v # ""
                      /\ inMemoryRuleCache[c] = cl.record
    IN /\ cl.pc \in {"saveStale", "loadFallback", "saveFallback"}
            => (cl.replaced = JNull <=> cl.pc # "saveStale")
       /\ cl.pc = "saveFallback"
            => isFallback /\ cl.record.lastError = JStr(cl.cdnError)
       /\ cl.pc = "done" /\ cl.via = "fallback"
            => isFallback /\ storage[c] = cl.record

\* C10 happens: a call returns the packaged fallback it loaded after a
\* failed CDN attempt
C10_Witness ==
  \E i \in Calls :
    /\ calls[i].pc = "done"
    /\ calls[i].via = "fallback"
    /\ calls[i].record.source = "fallback-local"
    /\ storage[calls[i].category] = calls[i].record

\* C11: when the CDN attempt fails, no stored record exists and the packaged
\* fallback cannot be loaded or fails normalization, retrieveRule throws,
\* the GET_RULE_SET response has success = false and an error text, and
\* neither the in-memory cache nor storage holds a record of the category.
C11_TotalFailureSurfaces ==
  \A i \in Calls :
    LET cl == calls[i]
    IN cl.pc = "failed"
         => /\ ResponseOf(cl).success = FALSE
            /\ ResponseOf(cl).error # ""
            /\ inMemoryRuleCache[cl.category] = NoRecord
            /\ storage[cl.category] = NoRecord

\* C11 happens: a call has thrown after its CDN attempt and the fallback
\* both failed
C11_Witness ==
  \E i \in Calls :
    /\ calls[i].pc = "failed"
    /\ calls[i].path = "fetch"
    /\ calls[i].net > 0

\* The errors loadFallbackRule throws on the packaged files of the model
FallbackErrors(category) ==
  {"Failed to load fallback", "Invalid JSON in fallback file",
   normalizeRuleData(category, SchemaBrokenDoc(category)).v}

\* C12: a GET_RULE_SET response has success = false only when the category
\* has no stored record and the packaged fallback could not be used; a call
\* whose CDN attempt failed while a stored record or the packaged fallback
\* gave data is answered with success = true, the data, and the failure in
\* lastError only.
C12_FailureOnlyWithoutData ==
  \A i \in Calls :
    LET cl == calls[i]
        response == ResponseOf(cl)
    IN /\ (cl.pc \in {"done", "failed"} /\ ~response.success)
            => /\ storage[cl.category] = NoRecord
               /\ inMemoryRuleCache[cl.category] = NoRecord
               /\ cl.body \in FallbackErrors(cl.category)
       /\ (cl.pc = "done" /\ cl.via \in {"stale", "fallback"})
            => /\ response.success
               /\ "error" \notin DOMAIN response
               /\ Truthy(response.rule)
               /\ IsStr(response.lastError)
               /\ response.lastError.v # ""

\* C12 happens: a call is answered with the stored record after its CDN
\* attempt failed the integrity check
C12_Witness ==
  \E i \in Calls :
    /\ calls[i].pc = "done"
    /\ calls[i].via = "stale"
    /\ ResponseOf(calls[i]).success
    /\ ResponseOf(calls[i]).lastError = JStr(IntegrityError(calls[i].category))

(***************************************************************************)
(* isRecordFresh on records of every age around the two limits             *)
(***************************************************************************)
\* The fetchedAt values of the records: none (0 stands for a record without
\* fetchedAt), and two instants
SampleFetchedAt == {0, StartTime, 5 * StartTime}

\* The ages of the records: around 15 minutes and around 6 hours
SampleAges ==
  {0, FALLBACK_RETRY_MS - 1, FALLBACK_RETRY_MS, FALLBACK_RETRY_MS + 1,
   RULE_CACHE_TTL_MS - 1, RULE_CACHE_TTL_MS, RULE_CACHE_TTL_MS + 1}

\* The records the in-memory cache can hold for a category, and none
SampleRecords(category) ==
  {NoRecord} \cup
  {[RuleRecord(category, PackagedPayload(category), source, RULE_ENDPOINTS(category),
               fetchedAt, JBool(FALSE), JNull, Packaged(category).id)
      EXCEPT !.lastError = IF source = "cdn" THEN JNull ELSE JStr("HTTP 503")] :
     source \in {"cdn", "fallback-local"}, fetchedAt \in SampleFetchedAt}

\* A service worker whose in-memory cache holds one of the records, at a
\* time that gives the record one of the ages
InitFresh ==
  /\ \E c \in ServedCategories : \E r \in SampleRecords(c) :
       /\ served = {c}
       /\ Injected
       /\ sweep = NoSweep
       /\ inMemoryRuleCache = [x \in Categories |-> IF x = c THEN r ELSE NoRecord]
  /\ \E f \in SampleFetchedAt, a \in SampleAges : now = StartTime + f + a
  /\ pendingRuleFetches = [c \in Categories |-> 0]
  /\ storage = [c \in Categories |-> NoRecord]
  /\ indexCache = NoManifest
  /\ calls = [i \in Calls |-> IdleCall]
  /\ ticks = 0
  /\ restarts = 0

\* retrieveRule is called once, forced or not
NextFresh == \E c \in Categories, f \in BOOLEAN : StartAlone(c, f)

SpecFresh == InitFresh /\ [][NextFresh]_vars

\* The two limits in milliseconds
SixHours == 6 * 60 * 60 * 1000
FifteenMinutes == 15 * 60 * 1000

\* C13: isRecordFresh holds exactly when the record exists, has a fetchedAt
\* and is younger than six hours (source cdn) or than fifteen minutes (any
\* other source), the limit itself excluded; and a call without forceRefresh
\* returns from memory exactly when the record in memory is fresh.
C13_FreshnessLimits ==
  \A c \in Categories :
    LET r == inMemoryRuleCache[c]
        fresh == /\ r # NoRecord
                 /\ r.fetchedAt # 0
                 /\ now - r.fetchedAt < (IF r.source = "cdn" THEN SixHours
                                        ELSE FifteenMinutes)
    IN /\ isRecordFresh(r, now) <=> fresh
       /\ \A i \in Calls :
            calls[i].category = c /\ calls[i].pc # "idle" /\ ~calls[i].forceRefresh
              => (calls[i].path = "memory" <=> fresh)

\* C13 happens: a fallback record exactly fifteen minutes old is not fresh,
\* and the call goes on to storage
C13_Witness ==
  \E i \in Calls :
    LET r == inMemoryRuleCache[calls[i].category]
    IN /\ calls[i].pc = "loadStorage"
       /\ ~calls[i].forceRefresh
       /\ r # NoRecord
       /\ r.source = "fallback-local"
       /\ r.fetchedAt # 0
       /\ now - r.fetchedAt = FifteenMinutes

\* C14: once a CDN attempt has failed and the category is served from the
\* kept record or from the packaged fallback (a record with lastFailureAt),
\* a call without forceRefresh puts no request on the network before
\* fifteen minutes have passed since that failure.
C14_RetryAfterFifteenMinutes ==
  \A i \in Calls :
    LET cl == calls[i]
    IN (/\ cl.pc \in {"fetchManifest", "fetchRule"}
        /\ ~cl.forceRefresh
        /\ cl.storedRecord # NoRecord
        /\ cl.storedRecord.lastFailureAt # 0)
         => now - cl.storedRecord.lastFailureAt >= FifteenMinutes

(***************************************************************************)
(* Saved records of all five categories read back from storage             *)
(***************************************************************************)
\* The documents whose normalized payload gets saved: both releases of the
\* category and release 1 with its keys in another order
SavedDocs(category) ==
  {ReleaseDoc(category, 1), ReleaseDoc(category, 2), ReorderedDoc(category)}

\* The record saveRuleToStorage has written for a download of the document
StoredDownload(category, doc, fetchedAt) ==
  SavedRecord(RuleRecord(category, normalizeRuleData(category, doc), "cdn",
                         RULE_ENDPOINTS(category), fetchedAt, JBool(FALSE), JNull,
                         category \o "@saved"))

\* A service worker that starts with one saved record in storage and an
\* empty in-memory cache, within the record's six hours or after them
InitStored ==
  /\ \E c \in Categories : \E d \in SavedDocs(c) :
       /\ served = {c}
       /\ Injected
       /\ sweep = NoSweep
       /\ storage = [x \in Categories |->
                       IF x = c THEN StoredDownload(c, d, StartTime) ELSE NoRecord]
  /\ now \in {StartTime, StartTime + FALLBACK_RETRY_MS, StartTime + RULE_CACHE_TTL_MS}
  /\ inMemoryRuleCache = [c \in Categories |-> NoRecord]
  /\ pendingRuleFetches = [c \in Categories |-> 0]
  /\ indexCache = NoManifest
  /\ calls = [i \in Calls |-> IdleCall]
  /\ ticks = 0
  /\ restarts = 0

\* retrieveRule is called and reads the record back with loadRuleFromStorage
NextStored ==
  \/ \E c \in Categories, f \in BOOLEAN : StartAlone(c, f)
  \/ \E i \in Calls : LoadStorage(i)

SpecStored == InitStored /\ [][NextStored]_vars

\* The record loadRuleFromStorage gave a call that has read storage
ReadBack(cl) == IF cl.pc = "done" THEN cl.record ELSE cl.storedRecord

\* C15: the payload loadRuleFromStorage returns for a saved record, in any of
\* the five categories, is deep-equal to the payload that is stored
\* (normalizeRuleData applied to its own output changes nothing).
C15_RoundTrip ==
  \A i \in Calls :
    LET cl == calls[i]
    IN cl.pc \in {"manifestCache", "done"} =>
         /\ storage[cl.category] # NoRecord
         /\ ReadBack(cl) # NoRecord
         /\ deepEqual(ReadBack(cl).data, storage[cl.category].data)

(***************************************************************************)
(* The order of the checks in fetchRuleFromCdn                             *)
(***************************************************************************)
InvalidJsonError(category) ==
  "CDN fetch failed for " \o category \o ": Invalid JSON received from CDN"

\* The calls whose CDN attempt has failed on the body they received
FailedOnBody ==
  {i \in Calls : calls[i].pc \in {"saveStale", "loadFallback"} /\ calls[i].body # ""}

\* C16: with an expected digest, fetchRuleFromCdn compares the digests before
\* it parses and normalizes: a body that is no JSON, or that fails
\* normalization, and whose digest differs from the expected one fails with
\* the integrity error; the JSON-parse error is another error than the
\* integrity error and is reported only for a body that is no JSON and that
\* passed the comparison or had no digest to be compared with.
C16_DigestBeforeParse ==
  \A i \in FailedOnBody :
    LET cl == calls[i]
    IN /\ Mismatch(cl) => cl.cdnError = IntegrityError(cl.category)
       /\ InvalidJsonError(cl.category) # IntegrityError(cl.category)
       /\ cl.cdnError = InvalidJsonError(cl.category) <=>
            (cl.body = Garbage(cl.category).id /\ ~Mismatch(cl))

\* C16 happens: a body that is no JSON and does not match the digest of the
\* manifest is rejected with the integrity error, after an earlier attempt
\* without manifest had failed with the JSON-parse error (kept in lastError
\* of the stored record)
C16_Witness ==
  \E i \in FailedOnBody :
    /\ calls[i].body = Garbage(calls[i].category).id
    /\ Mismatch(calls[i])
    /\ calls[i].cdnError = IntegrityError(calls[i].category)
    /\ storage[calls[i].category] # NoRecord
    /\ storage[calls[i].category].lastError = JStr(InvalidJsonError(calls[i].category))

(***************************************************************************)
(* fetchRuleFromCdn without a manifest                                     *)
(***************************************************************************)
\* The positions of a call after it has sent the rule request
AfterRuleRequest ==
  {"fetchRule", "saveRule", "queryTabs", "sendMessages", "saveStale", "loadFallback",
   "saveFallback", "done"}

\* C17: when the manifest request fails (HTTP status, timeout, invalid JSON,
\* no files object) fetchIndexManifest returns null and nothing is thrown:
\* the call goes on to request the rule file at the hard-coded URL of its
\* category with no expected digest, no body is rejected by the integrity
\* check, and the record made from the body has verified = false and a null
\* digest.
C17_NoManifestNoDigest ==
  \A i \in Calls :
    LET cl == calls[i]
    IN cl.index = "null" =>
         /\ cl.pc \in AfterRuleRequest
         /\ cl.net = 2
         /\ cl.pc = "fetchRule" =>
              cl.url = RULE_ENDPOINTS(cl.category) /\ cl.expectedHash = JNull
         /\ cl.cdnError # IntegrityError(cl.category)
         /\ cl.via = "cdn" =>
              /\ cl.record.source = "cdn"
              /\ cl.record.url = RULE_ENDPOINTS(cl.category)
              /\ cl.record.verified = JBool(FALSE)
              /\ cl.record.hash = JNull

\* C17 happens: after a failed manifest request retrieveRule returns a record
\* from the hard-coded URL, unverified and without digest
C17_Witness ==
  \E i \in Calls :
    /\ calls[i].index = "null"
    /\ calls[i].pc = "done"
    /\ calls[i].via = "cdn"
    /\ calls[i].record.url = RULE_ENDPOINTS(calls[i].category)
    /\ calls[i].record.verified = JBool(FALSE)
    /\ calls[i].record.hash = JNull

(***************************************************************************)
(* The manifest cache                                                      *)
(***************************************************************************)
OneHour == 60 * 60 * 1000

\* Whether the manifest cache holds a manifest younger than one hour
ManifestCached == indexCache # NoManifest /\ now - indexCache.fetchedAt < OneHour

\* C18: a call is given the cached manifest, and then sends no manifest
\* request (no request but the one for its rule file), exactly when the cache holds a manifest that is less than one
\* hour old; otherwise the manifest is requested again and, when the answer
\* is a manifest with a files object, written to the cache with the time of
\* the download.  A failed request, or an answer without files object,
\* leaves the cache as it was.
C18_ManifestCacheOneHour ==
  /\ indexCache # NoManifest =>
       /\ indexCache.data \in ManifestResponses
       /\ ~IsErr(indexCache.data)
       /\ IsPlainObj(Get(indexCache.data, "files"))
  /\ \A i \in Calls :
       LET cl == calls[i]
       IN /\ cl.index = "cached" => ManifestCached /\ cl.net <= 1
          /\ cl.pc = "fetchManifest" => ~ManifestCached /\ cl.net = 1
          /\ cl.index = "fetched" => ManifestCached /\ indexCache.fetchedAt = now
          /\ cl.index = "null" => ~ManifestCached

\* C18 happens: a call made a quarter of an hour after the manifest was
\* downloaded has fetched its rule file with the cached manifest
C18_Witness ==
  \E i \in Calls :
    /\ calls[i].index = "cached"
    /\ calls[i].pc = "done"
    /\ calls[i].via = "cdn"
    /\ calls[i].net = 1
    /\ now - indexCache.fetchedAt = FifteenMinutes

(***************************************************************************)
(* normalizeRuleData on documents with and without their primary list      *)
(***************************************************************************)
\* The field that holds the primary list of a category in a rule document
PrimaryField(category) ==
  CASE category = "aiTerms" -> "conservative"
    [] category = "aiWidgetSelectors" -> "selectors"
    [] category = "cookiePatterns" -> "reject_phrases"
    [] category = "killList" -> "ads"
    [] category = "preserveList" -> "entries"

\* A document without any list of the category, and one whose primary list
\* is empty
MissingPrimaryDoc(category) == JObj(<< <<"version", JStr("2.0.0")>> >>)
EmptyPrimaryDoc(category) ==
  JObj(<< <<"version", JStr("2.0.0")>>, <<PrimaryField(category), JArr(<<>>)>> >>)

\* The rule files the CDN serves in this check
PrimaryTexts(category) ==
  {Release(category, 1), Release(category, 2), Reordered(category),
   Text(category \o "@missing", MissingPrimaryDoc(category)),
   Text(category \o "@empty", EmptyPrimaryDoc(category))}

\* The document with the given bytes
DocOfBody(category, body) ==
  JSONParse(CHOOSE t \in PrimaryTexts(category) : t.id = body)

\* Whether a document lacks the primary list of the category or has an
\* empty one
LacksPrimary(category, doc) ==
  \/ Get(doc, PrimaryField(category)) = JUndef
  \/ Get(doc, PrimaryField(category)) = JArr(<<>>)

\* The primary list of a normalized payload
PrimaryList(category, payload) ==
  IF category \in {"killList", "preserveList"}
  THEN Get(Get(payload, PrimaryField(category)), "combined")
  ELSE Get(payload, PrimaryField(category))

\* The rule request of call i is answered with the given bytes
FetchRuleText(i, text) ==
  BodyArrives(i, calls[i], calls[i].category, text.id, RuleFromBody(calls[i], text))

\* A service worker that starts for the first time and is asked for one of
\* the five categories
InitDocs ==
  /\ Fresh
  /\ \E c \in Categories : served = {c}
  /\ Injected
  /\ sweep = NoSweep

\* retrieveRule up to the answer of the rule request
NextDocs ==
  \/ \E c \in Categories, f \in BOOLEAN : StartAlone(c, f)
  \/ \E i \in Calls : LoadStorage(i)
  \/ \E i \in Calls : ManifestCache(i)
  \/ \E i \in Calls, r \in ManifestResponses : FetchManifest(i, r)
  \/ \E i \in Calls, c \in Categories :
       /\ calls[i].category = c
       /\ \E t \in PrimaryTexts(c) : FetchRuleText(i, t)

SpecDocs == InitDocs /\ [][NextDocs]_vars

\* The calls whose rule request was answered with a body that was parsed
Parsed ==
  {i \in Calls : /\ calls[i].pc \in {"saveRule", "loadFallback"}
                 /\ calls[i].body # ""
                 /\ ~Mismatch(calls[i])}

\* C19: in each of the five categories normalizeRuleData raises an error for
\* a document whose primary list is absent or empty, and for every other
\* document returns a payload whose primary list is not empty.
C19_PrimaryListRequired ==
  \A i \in Parsed :
    LET cl == calls[i]
    IN IF LacksPrimary(cl.category, DocOfBody(cl.category, cl.body))
       THEN cl.pc = "loadFallback"
       ELSE /\ cl.pc = "saveRule"
            /\ IsArr(PrimaryList(cl.category, cl.record.data))
            /\ Len(PrimaryList(cl.category, cl.record.data).v) > 0

(***************************************************************************)
(* normalizeLanguageBuckets on the three shapes of a kill-list section     *)
(***************************************************************************)
\* The entries of the sections: the first n of two entries, one of them
\* with blanks around its selector
SectionEntries(n) == SubSeq(<<Entry(" #ad"), Entry("#promo")>>, 1, n)
\* Their selectors once normalized
SectionSelectors(n) == SubSeq(<<JStr("#ad"), JStr("#promo")>>, 1, n)

\* A group {locale, title, entries}; "" stands for a group without locale
\* and without title
SectionGroup(locale, entries) ==
  JObj((IF locale = "" THEN <<>>
        ELSE << <<"locale", JStr(locale)>>, <<"title", JStr("Title " \o locale)>> >>)
       \o << <<"entries", JArr(entries)>> >>)

\* The sections: shape is flat (an array of entries), groups (an array of
\* one or two groups) or mapping (an object with one or two locales); l1 and
\* n1 are the locale and the number of entries of the first group, l2 the
\* locale of the second group ("-" for none), which has the one entry
\* " #ad"; plain says that the mapping gives the first locale a bare array
\* of entries rather than a group.  A flat section has at least one entry:
\* the empty array is as much an array of no groups.
Sections ==
  {[shape |-> "flat", l1 |-> "", n1 |-> n, l2 |-> "-", plain |-> FALSE] : n \in 1..2}
  \cup
  {[shape |-> "groups", l1 |-> a, n1 |-> n, l2 |-> b, plain |-> FALSE] :
     a \in {"", "en", "EN", "fr"}, n \in 0..2, b \in {"-", "", "en", "EN", "fr"}}
  \cup
  {d \in [shape : {"mapping"}, l1 : {"en", "EN", "fr"}, n1 : 0..2,
          l2 : {"-", "en", "EN", "fr"}, plain : BOOLEAN] : d.l1 # d.l2}

\* The value of the section in the rule document
SectionOf(d) ==
  CASE d.shape = "flat" -> JArr(SectionEntries(d.n1))
    [] d.shape = "groups" ->
         JArr(<<SectionGroup(d.l1, SectionEntries(d.n1))>>
              \o (IF d.l2 = "-" THEN <<>> ELSE <<SectionGroup(d.l2, SectionEntries(1))>>))
    [] d.shape = "mapping" ->
         JObj(<< <<d.l1, IF d.plain THEN JArr(SectionEntries(d.n1))
                         ELSE SectionGroup(d.l1, SectionEntries(d.n1))>> >>
              \o (IF d.l2 = "-" THEN <<>>
                  ELSE << <<d.l2, JArr(SectionEntries(1))>> >>))

\* The kill-list file whose ads section is the given one
SectionText(d) ==
  Text("killList@" \o d.shape \o "-" \o d.l1 \o ToString(d.n1) \o "-" \o d.l2
         \o (IF d.plain THEN "-plain" ELSE ""),
       JObj(<< <<"version", JStr("2.0.0")>>, <<"ads", SectionOf(d)>> >>))

\* The section of the file with the given bytes
SectionOfBody(body) == CHOOSE d \in Sections : SectionText(d).id = body

\* A service worker that starts for the first time and is asked for the
\* kill list
InitBuckets ==
  /\ Fresh
  /\ served = {"killList"}
  /\ Injected
  /\ sweep = NoSweep

\* retrieveRule up to the answer of the rule request, which is one of the
\* kill-list files
NextBuckets ==
  \/ \E c \in Categories, f \in BOOLEAN : StartAlone(c, f)
  \/ \E i \in Calls : LoadStorage(i)
  \/ \E i \in Calls : ManifestCache(i)
  \/ \E i \in Calls, r \in ManifestResponses : FetchManifest(i, r)
  \/ \E i \in Calls, d \in Sections : FetchRuleText(i, SectionText(d))

SpecBuckets == InitBuckets /\ [][NextBuckets]_vars

\* The locale keys a section should give: of its first and its second group
FirstKey(d) ==
  CASE d.shape = "flat" -> "GLOBAL"
    [] d.l1 = "" -> "SECTION_0"
    [] d.l1 \in {"en", "EN"} -> "EN"
    [] d.l1 = "fr" -> "FR"
SecondKey(d) ==
  CASE d.l2 = "" -> "SECTION_1"
    [] d.l2 \in {"en", "EN"} -> "EN"
    [] d.l2 = "fr" -> "FR"

\* Whether the second group of the section has the locale of the first
SameLocale(d) == d.l2 # "-" /\ FirstKey(d) = SecondKey(d)

\* The selectors and the locales of a list of normalized entries
SelectorsOf(entries) == [i \in 1..Len(entries.v) |-> Get(entries.v[i], "selector")]
LocalesOf(entries) == [i \in 1..Len(entries.v) |-> Get(entries.v[i], "locale")]

\* Whether a bucket holds the given entries under the given locale and title
IsBucket(bucket, key, title, selectors) ==
  /\ Get(bucket, "title") = title
  /\ SelectorsOf(Get(bucket, "entries")) = selectors
  /\ LocalesOf(Get(bucket, "entries")) = [i \in 1..Len(selectors) |-> JStr(key)]

\* The title of the first group of a section
FirstTitle(d) ==
  IF d.shape = "flat" \/ d.l1 = "" \/ d.plain THEN JNull ELSE JStr("Title " \o d.l1)
SecondTitle(d) ==
  IF d.shape = "mapping" \/ d.l2 = "" THEN JNull ELSE JStr("Title " \o d.l2)

\* Whether result is the bucket structure of section d: one bucket per
\* locale in the order of their first appearance, a later group replacing an
\* earlier one of the same locale, and the combined list the concatenation
\* of the buckets' entries
IsBucketsOf(result, d) ==
  LET locales == Get(result, "locales")
      combined == Get(result, "combined")
  IN /\ IsPlainObj(locales)
     /\ IsArr(combined)
     /\ combined.v = Flatten([i \in 1..Len(locales.v) |-> Get(locales.v[i][2], "entries").v])
     /\ IF d.l2 = "-"
        THEN /\ [i \in 1..Len(locales.v) |-> locales.v[i][1]] = <<FirstKey(d)>>
             /\ IsBucket(Get(locales, FirstKey(d)), FirstKey(d), FirstTitle(d),
                         SectionSelectors(d.n1))
             /\ SelectorsOf(combined) = SectionSelectors(d.n1)
        ELSE IF SameLocale(d)
        THEN /\ [i \in 1..Len(locales.v) |-> locales.v[i][1]] = <<FirstKey(d)>>
             /\ IsBucket(Get(locales, FirstKey(d)), FirstKey(d), SecondTitle(d),
                         SectionSelectors(1))
        ELSE /\ [i \in 1..Len(locales.v) |-> locales.v[i][1]] = <<FirstKey(d), SecondKey(d)>>
             /\ IsBucket(Get(locales, FirstKey(d)), FirstKey(d), FirstTitle(d),
                         SectionSelectors(d.n1))
             /\ IsBucket(Get(locales, SecondKey(d)), SecondKey(d), SecondTitle(d),
                         SectionSelectors(1))
             /\ SelectorsOf(combined) = SectionSelectors(d.n1) \o SectionSelectors(1)

\* C20: for a section that is a flat array of entries, an array of groups
\* {locale, title, entries} or a mapping from locale to group (or to a bare
\* array), normalizeLanguageBuckets returns the per-locale breakdown that
\* belongs to that shape (GLOBAL for the flat array, the upper-cased locale
\* or SECTION_<index> of each group, the upper-cased key of each mapping
\* entry) and a combined list that is the concatenation of the entry lists
\* of the breakdown.
C20_BucketsByShape ==
  \A i \in Parsed :
    /\ calls[i].pc = "saveRule"
    /\ IsBucketsOf(Get(calls[i].record.data, "ads"), SectionOfBody(calls[i].body))

\* C20 happens: an array of two groups of different locales has been
\* normalized into two buckets and a combined list of all three entries
C20_Witness ==
  \E i \in Parsed :
    /\ calls[i].pc = "saveRule"
    /\ SectionOfBody(calls[i].body).shape = "groups"
    /\ SectionOfBody(calls[i].body).l2 # "-"
    /\ ~SameLocale(SectionOfBody(calls[i].body))
    /\ Len(Get(Get(calls[i].record.data, "ads"), "combined").v) = 3

(***************************************************************************)
(* The entries of the kill list and of the preserve list                   *)
(***************************************************************************)
\* An entry with a selector and the given fallbackPatterns
PatternEntry(fallbackPatterns) ==
  JObj(<< <<"selector", JStr("#promo")>>, <<"fallbackPatterns", fallbackPatterns>> >>)

\* The entries of the rule files: with a selector only, without selector,
\* with a blank selector, and with fallbackPatterns of several shapes
EntrySamples ==
  << Entry("#ad"),
     JObj(<< <<"id", JStr("x")>> >>),
     JObj(<< <<"selector", JStr(" ")>> >>),
     JObj(<< <<"selector", JStr("#promo")>>,
             <<"textContains", JStr("Sponsored")>>,
             <<"fallbackPatterns", JObj(<< <<"id", JStr("box")>>,
                                           <<"class", JStr("promo")>> >>)>> >>),
     PatternEntry(JObj(<< <<"id", JStr("box")>> >>)),
     PatternEntry(JObj(<< <<"id", [t |-> "bool", v |-> TRUE]>>,
                          <<"note", JStr("n")>> >>)),
     PatternEntry(JStr("box")),
     PatternEntry(JArr(<<JStr("box")>>)) >>

\* The one or two entries of a rule file: samples a and b, b = 0 for none
EntriesOfFile(a, b) ==
  <<EntrySamples[a]>> \o (IF b = 0 THEN <<>> ELSE <<EntrySamples[b]>>)

\* The kill-list or preserve-list document with the given entries in one
\* locale group
EntriesDoc(category, entries) ==
  IF category = "killList"
  THEN JObj(<< <<"version", JStr("2.0.0")>>,
               <<"ads", JArr(<<JObj(<< <<"locale", JStr("en")>>,
                                       <<"entries", JArr(entries)>> >>)>>)>> >>)
  ELSE JObj(<< <<"version", JStr("2.0.0")>>,
               <<"entries", JArr(<<JObj(<< <<"locale", JStr("en")>>,
                                           <<"elements", JArr(entries)>> >>)>>)>> >>)

EntriesText(category, a, b) ==
  Text(category \o "@entries-" \o ToString(a) \o "-" \o ToString(b),
       EntriesDoc(category, EntriesOfFile(a, b)))

\* The pairs (a, b) of the rule files
EntryFiles == (1..Len(EntrySamples)) \X (0..Len(EntrySamples))

\* The entries of the file with the given bytes
EntriesOfBody(category, body) ==
  LET f == CHOOSE f \in EntryFiles : EntriesText(category, f[1], f[2]).id = body
  IN EntriesOfFile(f[1], f[2])

\* A service worker that starts for the first time and is asked for the
\* kill list or for the preserve list
InitEntries ==
  /\ Fresh
  /\ \E c \in {"killList", "preserveList"} : served = {c}
  /\ Injected
  /\ sweep = NoSweep

\* retrieveRule up to the answer of the rule request, which is one of the
\* rule files
NextEntries ==
  \/ \E c \in Categories, f \in BOOLEAN : StartAlone(c, f)
  \/ \E i \in Calls : LoadStorage(i)
  \/ \E i \in Calls : ManifestCache(i)
  \/ \E i \in Calls, r \in ManifestResponses : FetchManifest(i, r)
  \/ \E i \in Calls, c \in {"killList", "preserveList"}, f \in EntryFiles :
       /\ calls[i].category = c
       /\ FetchRuleText(i, EntriesText(c, f[1], f[2]))

SpecEntries == InitEntries /\ [][NextEntries]_vars

\* Whether an entry has a non-empty selector
HasSelector(entry) == SelectorOf(entry) # ""

\* C21: in the kill list and in the preserve list an entry without a
\* non-empty selector is dropped and the other entries of the file are
\* normalized and returned, in their order; normalization does not fail.
C21_SelectorlessDropped ==
  \A i \in Parsed :
    LET cl == calls[i]
        kept == SelectSeq(EntriesOfBody(cl.category, cl.body), HasSelector)
    IN /\ cl.pc = "saveRule"
       /\ SelectorsOf(PrimaryList(cl.category, cl.record.data)) =
            [k \in 1..Len(kept) |-> JStr(SelectorOf(kept[k]))]

\* Whether a normalized fallbackPatterns is what the raw one should give:
\* null unless the raw one is an object, and then an object with the keys
\* id and class, each a string or null
IsPatternsOf(normalized, raw) ==
  IF IsPlainObj(raw)
  THEN /\ IsPlainObj(normalized)
       /\ [k \in 1..Len(normalized.v) |-> normalized.v[k][1]] = <<"id", "class">>
       /\ \A k \in 1..2 : IsStr(normalized.v[k][2]) \/ normalized.v[k][2] = JNull
  ELSE normalized = JNull

\* C22: every normalized entry of the kill list and of the preserve list
\* has fallbackPatterns = null when the entry of the file has none or one
\* that is no object, and otherwise an object {id, class} of strings or
\* nulls; an entry with a selector only has fallbackPatterns = null and
\* textContains = null.
C22_FallbackPatternsShape ==
  \A i \in Parsed :
    LET cl == calls[i]
        kept == SelectSeq(EntriesOfBody(cl.category, cl.body), HasSelector)
    IN cl.pc = "saveRule" =>
         LET entries == PrimaryList(cl.category, cl.record.data).v
         IN /\ Len(entries) = Len(kept)
            /\ \A k \in 1..Len(entries) :
                 /\ IsPatternsOf(Get(entries[k], "fallbackPatterns"),
                                 Get(kept[k], "fallbackPatterns"))
                 /\ kept[k] = Entry("#ad") =>
                      /\ Get(entries[k], "fallbackPatterns") = JNull
                      /\ Get(entries[k], "textContains") = JNull

(***************************************************************************)
(* Deliveries of a broadcast that fail                                     *)
(***************************************************************************)
\* The calls that have returned after a broadcast
Broadcast == {i \in Calls : calls[i].pc = "done" /\ calls[i].sent > 0}

Downloaded(category) ==
  RuleRecord(category, normalizeRuleData(category, ReleaseDoc(category, 1)), "cdn",
             RULE_ENDPOINTS(category), StartTime, JBool(FALSE), JNull,
             Release(category, 1).id)

\* A service worker that has downloaded the category (or has never fetched
\* it), at the download's time, a quarter of an hour later, just before the
\* record's six hours are over and when they are over
InitAlarm ==
  /\ \E c \in ServedCategories : \E r \in {NoRecord, Downloaded(c)} :
       /\ served = {c}
       /\ Injected
       /\ sweep = NoSweep
       /\ inMemoryRuleCache = [x \in Categories |-> IF x = c THEN r ELSE NoRecord]
       /\ storage = [x \in Categories |->
                       IF x = c /\ r # NoRecord THEN SavedRecord(r) ELSE NoRecord]
  /\ now \in {StartTime, StartTime + FALLBACK_RETRY_MS, StartTime + RULE_CACHE_TTL_MS - 1,
              StartTime + RULE_CACHE_TTL_MS}
  /\ pendingRuleFetches = [c \in Categories |-> 0]
  /\ indexCache = NoManifest
  /\ calls = [i \in Calls |-> IdleCall]
  /\ ticks = 0
  /\ restarts = 0

\* chrome.alarms.onAlarm, lines 779-782, and refreshAllRules, lines 728-736:
\* the rulesRefresh alarm calls refreshAllRules(true), which calls
\* retrieveRule(category, {forceRefresh: true}) for one category after the
\* other
RulesRefreshAlarm == \E c \in Categories : StartAlone(c, TRUE)

\* The alarm fires again and again; every call of the sweep runs to its end
\* (Respond stands for the return into the loop of refreshAllRules)
NextAlarm ==
  \/ RulesRefreshAlarm
  \/ Step

SpecAlarm == InitAlarm /\ [][NextAlarm]_vars

\* C24: the sweep of the rulesRefresh alarm is not forced, and a call of the
\* sweep has no request on the network for a category whose cached record is
\* fresh.
C24_AlarmSweepNotForced ==
  \A i \in Calls :
    /\ calls[i].pc # "idle" => ~calls[i].forceRefresh
    /\ calls[i].pc \in {"fetchManifest", "fetchRule"} =>
         ~isRecordFresh(inMemoryRuleCache[calls[i].category], now)

(***************************************************************************)
(* Termination of retrieveRule                                             *)
(***************************************************************************)
\* fetchWithTimeout, lines 297-310, in fetchRuleFromCdn, line 535: the
\* response headers of the rule request arrive with status 200 within the
\* eight seconds; fetch resolves, the finally block clears the timer, and
\* the call awaits response.text() (line 542)
HeadersArrive(i) ==
  /\ Quiet
  /\ calls[i].pc = "fetchRule"
  /\ calls' = [calls EXCEPT ![i] = [@ EXCEPT !.pc = "readBody"]]
  /\ UNCHANGED <<now, inMemoryRuleCache, pendingRuleFetches, storage, indexCache,
                 ticks, restarts, served, client, sweep>>

\* response.text() resolves: the server has sent the whole body
BodyRead(i, kind) ==
  /\ calls[i].pc = "readBody"
  /\ BodyArrives(i, [calls[i] EXCEPT !.pc = "fetchRule"], calls[i].category,
                 Body(calls[i].category, kind).id,
                 RuleFromBody(calls[i], Body(calls[i].category, kind)))

\* The server: it may send the body after the headers, when it likes
Server == \E i \in Calls, k \in BodyKinds : BodyRead(i, k)

\* One call of retrieveRule after the other
NextLive ==
  \/ \E c \in Categories, f \in BOOLEAN : StartAlone(c, f)
  \/ Step
  \/ \E i \in Calls : HeadersArrive(i)
  \/ Server

\* Every continuation of the service worker runs once the promise it awaits
\* has settled, and every request sent with fetchWithTimeout settles within
\* RULE_FETCH_TIMEOUT_MS (response or abort): the steps of the program are
\* weakly fair.  Nothing makes the server send a body.
SpecLive == Init /\ [][NextLive]_vars /\ WF_vars(Step)

\* C25: every call of retrieveRule eventually completes and the entry of its
\* category in pendingRuleFetches is eventually removed, whatever the remote
\* side does.
C25_EveryCallCompletes ==
  /\ \A i \in Calls : (calls[i].pc # "idle") ~> (calls[i].pc = "idle")
  /\ \A c \in ServedCategories : (pendingRuleFetches[c] # 0) ~> (pendingRuleFetches[c] = 0)

(***************************************************************************)
(* pendingRuleFetches and the operations in flight                         *)
(***************************************************************************)
\* The calls that run the fetch operation of a category
InFlight(c) == {i \in Calls : calls[i].category = c /\ calls[i].pc \in OperationPcs}

\* C26: pendingRuleFetches has an entry for a category exactly while a fetch
\* operation of the category is in flight, and the entry is that operation;
\* once the operation has completed, with a record or with an error, the
\* entry is gone, so that a waiting call is always attached to an operation
\* that is still running.
C26_PendingIffInFlight ==
  \A c \in Categories :
    /\ pendingRuleFetches[c] # 0 <=> InFlight(c) # {}
    /\ pendingRuleFetches[c] # 0 => InFlight(c) = {pendingRuleFetches[c]}
    /\ \A j \in Calls :
         /\ (calls[j].category = c /\ calls[j].pc = "join")
              => (calls[j].joined # 0 /\ calls[j].joined = pendingRuleFetches[c])
         /\ (calls[j].category = c /\ calls[j].pc \in {"done", "failed"}
               /\ calls[j].path \in {"fetch", "join"})
              => pendingRuleFetches[c] = 0

\* C26 happens: an operation has failed altogether, the call that ran it
\* and the call that waited for it have both thrown, and the entry is gone
C26_Witness ==
  \E i, j \in Calls :
    /\ calls[i].pc = "failed"
    /\ calls[i].path = "fetch"
    /\ calls[j].pc = "failed"
    /\ calls[j].path = "join"
    /\ pendingRuleFetches[calls[i].category] = 0

(***************************************************************************)
(* The content scripts and the background                                  *)
(***************************************************************************)
\* The variables of the service worker
background == <<now, inMemoryRuleCache, pendingRuleFetches, storage, indexCache, calls,
                ticks, restarts, served, sweep>>

\* String.prototype.toLowerCase on the phrases of the model
ToLowerCase(s) ==
  CASE s = "EN" -> "en"
    [] s = "Reject" -> "reject"
    [] OTHER -> s

\* cookies.js, normalizeDomain and normalizePhrase (lines 26-32)
normalizePhrase(phrase) ==
  IF IsStr(phrase) THEN JStr(ToLowerCase(Trim(phrase.v))) ELSE JStr("")

\* ensureArray(list).map(normalizePhrase).filter(Boolean)
Phrases(list) ==
  FilterBoolean([i \in 1..Len(ensureArray(list).v) |-> normalizePhrase(ensureArray(list).v[i])])

\* cookies.js, buildCmpConfigs (lines 136-155): the name of every detector
buildCmpConfigs(rawCmps) ==
  [i \in 1..Len(ensureArray(rawCmps).v) |->
     Or(Get(ensureArray(rawCmps).v[i], "name"), JStr("Unnamed CMP"))]

\* cookies.js, loadCookieRules (lines 157-187), after getRuleSet has
\* returned `rules`
loadCookieRules(rules) ==
  IF ~Truthy(rules) THEN NoCookieRules
  ELSE [EXCLUDED_DOMAINS |-> Phrases(Get(rules, "excluded_domains")),
        REJECT_PATTERNS |-> Phrases(Get(rules, "reject_phrases")),
        CMP_CONFIGS |-> buildCmpConfigs(Get(rules, "cmps"))]

\* killlist_blocker.js, flattenBucket (unnamed/part_002, lines 46-51)
flattenBucket(bucket) ==
  IF ~Truthy(bucket) THEN <<>>
  ELSE IF IsArr(bucket) THEN bucket.v
  ELSE IF IsArr(Get(bucket, "combined")) THEN Get(bucket, "combined").v
  ELSE <<>>

\* killlist_blocker.js, loadKillList (unnamed/part_002, lines 41-84), after
\* getRuleSet has returned `data`
loadKillList(data) ==
  IF ~Truthy(data) THEN EMPTY_KILL_LIST
  ELSE [metadata |-> Or(Get(data, "metadata"), JObj(<<>>)),
        ads |-> flattenBucket(Get(data, "ads")),
        aiTerms |-> flattenBucket(Get(data, "aiTerms")),
        aiWidgets |-> flattenBucket(Get(data, "aiWidgets")),
        cookies |-> flattenBucket(Get(data, "cookies"))]

\* loadPreserveRules, line 459:
\* Array.isArray(payload?.entries) ? payload.entries : []
PreserveEntries(payload) ==
  IF IsArr(Get(payload, "entries")) THEN Get(payload, "entries").v ELSE <<>>

\* `{ forceRefresh = false } = options`: the default applies when the
\* property is undefined, as it is for every options that is no object
ForceRefreshOf(options) ==
  IF Get(options, "forceRefresh") = JUndef THEN FALSE
  ELSE Truthy(Get(options, "forceRefresh"))

\* The arguments loadPreserveRules is called with: none (the consumers at
\* their start), true (their RULES_UPDATED listeners), an options object
ForcedOptions == JObj(<< <<"forceRefresh", JBool(TRUE)>> >>)
PreserveOptions == {JUndef, JBool(TRUE), ForcedOptions}

\* chrome.runtime.sendMessage rejects
Rejected == [success |-> FALSE, error |-> "Could not establish connection"]

\* A getRuleSet that lets the failure of the request through to its caller
getRuleSetThrows(req, response) ==
  IF response.success /\ Truthy(response.rule)
  THEN [result |-> response.rule, path |-> "response", pre |-> req.pre,
        entry |-> [data |-> response.rule, timestamp |-> req.now, pre |-> req.pre]]
  ELSE [result |-> JUndef, path |-> "thrown", pre |-> FALSE, entry |-> NoEntry]

\* getRuleSet, lines 398-423, once the request has been answered with
\* `response` (or has failed): what it returns and the entry it memoizes.
\* Of the entry the model keeps what is read again, data and timestamp.
getRuleSet(req, response) ==
  IF response.success /\ Truthy(response.rule)
  THEN [result |-> response.rule, path |-> "response", pre |-> req.pre,
        entry |-> [data |-> response.rule, timestamp |-> req.now, pre |-> req.pre]]
  ELSE IF req.cached # NoEntry
  THEN [result |-> req.cached.data, path |-> "stale", pre |-> req.cached.pre,
        entry |-> NoEntry]
  ELSE [result |-> JNull, path |-> "null", pre |-> FALSE, entry |-> NoEntry]

\* The caller of getRuleSet goes on with what it returned (or threw): the
\* rest of loadPreserveRules (lines 458-467), loadCookieRules
\* (cookies.js:161-186) or loadKillList (unnamed/part_002:45-83)
Consume(rule, ret) ==
  CASE rule = "preserveList" ->
         /\ preserveRuleStore' =
              IF ret.path = "thrown" THEN [preserveRuleStore EXCEPT !.loadingPromise = 0]
              ELSE [entries |-> PreserveEntries(ret.result), lastLoadedAt |-> now,
                    loadingPromise |-> 0]
         /\ UNCHANGED contentRules
    [] rule = "cookiePatterns" ->
         /\ contentRules' = [contentRules EXCEPT !.cookies =
              IF ret.path = "thrown" THEN NoCookieRules ELSE loadCookieRules(ret.result)]
         /\ UNCHANGED preserveRuleStore
    [] rule = "killList" ->
         /\ contentRules' = [contentRules EXCEPT !.KILLLIST =
              IF ret.path = "thrown" THEN EMPTY_KILL_LIST ELSE loadKillList(ret.result)]
         /\ UNCHANGED preserveRuleStore
    [] OTHER -> UNCHANGED <<preserveRuleStore, contentRules>>

\* getRuleSet returns `ret` to its caller, which goes on in the same
\* microtask checkpoint.  The model keeps the call that returned last.
Returns(r, req, ret) ==
  /\ requests' = [q \in Requests |->
       IF q = r
       THEN [req EXCEPT !.pc = "returned", !.result = ret.result, !.path = ret.path,
                        !.pre = ret.pre, !.update = JUndef]
       ELSE IF requests[q].pc = "returned" THEN IdleRequest
       ELSE requests[q]]
  /\ ruleCacheStore' = IF ret.entry # NoEntry
                       THEN [ruleCacheStore EXCEPT ![req.rule] = ret.entry]
                       ELSE ruleCacheStore
  /\ Consume(req.rule, ret)

\* The getRuleSet call a caller makes now
NewRequest(rule, forceRefresh) ==
  [IdleRequest EXCEPT !.rule = rule, !.forceRefresh = forceRefresh, !.now = now,
                      !.cached = ruleCacheStore[rule]]

\* getRuleSet, line 389: the memoized payload answers the call
MemoAnswers(req) ==
  /\ ~req.forceRefresh
  /\ req.cached # NoEntry
  /\ (req.now - req.cached.timestamp) < RULE_CACHE_DURATION

\* The service worker is at rest.  The steps the content scripts take on
\* their own are taken then: they read and write nothing of the service
\* worker, whose steps read and write nothing of theirs, so that every
\* other interleaving ends as one of these does.
AtRest == \A j \in Calls : calls[j].pc = "idle"

\* A slot of the model for one more getRuleSet call
FreeSlot(r) ==
  /\ requests[r].pc \in {"idle", "returned"}
  /\ \A q \in 1..(r - 1) : requests[q].pc \notin {"idle", "returned"}

\* getRuleSet, lines 382-396, called by the consumer of `rule`: answered by
\* the memo, or GET_RULE_SET is sent
CallGetRuleSet(r, req) ==
  IF MemoAnswers(req)
  THEN Returns(r, req, [result |-> req.cached.data, path |-> "memo",
                        pre |-> req.cached.pre, entry |-> NoEntry])
  ELSE /\ requests' = [requests EXCEPT ![r] = [req EXCEPT !.pc = "sent"]]
       /\ preserveRuleStore' = IF req.rule = "preserveList"
                               THEN [preserveRuleStore EXCEPT !.loadingPromise = r]
                               ELSE preserveRuleStore
       /\ UNCHANGED <<ruleCacheStore, contentRules>>

\* loadCookieRules(forceRefresh) and loadKillList(forceRefresh) up to the
\* await of getRuleSet
LoadRules(r, rule, forceRefresh) ==
  /\ AtRest
  /\ rule \in served \ {"preserveList"}
  /\ FreeSlot(r)
  /\ CallGetRuleSet(r, NewRequest(rule, forceRefresh))
  /\ UNCHANGED background

\* loadPreserveRules, lines 445-450: the cached entries answer
cacheIsFresh(store, time) ==
  /\ Len(store.entries) > 0
  /\ (time - store.lastLoadedAt) < RULE_CACHE_DURATION

\* loadPreserveRules(options), lines 444-470, when it starts a load (it
\* changes nothing when the cached entries answer or a load is under way)
LoadPreserveRules(r, options) ==
  /\ AtRest
  /\ "preserveList" \in served
  /\ FreeSlot(r)
  /\ ~(~ForceRefreshOf(options) /\ cacheIsFresh(preserveRuleStore, now))
  /\ preserveRuleStore.loadingPromise = 0
  /\ CallGetRuleSet(r, NewRequest("preserveList", ForceRefreshOf(options)))
  /\ UNCHANGED background

\* background.js, lines 886-889: the GET_RULE_SET message of request r
\* reaches the service worker, which calls retrieveRule
OnGetRuleSet(r) ==
  /\ requests[r].pc = "sent"
  /\ AtRest
  /\ retrieveRule(1, requests[r].rule, requests[r].forceRefresh)
  /\ requests' = [requests EXCEPT ![r] = [@ EXCEPT !.pc = "handling"]]
  /\ UNCHANGED <<ruleCacheStore, preserveRuleStore, contentRules>>

\* background.js, lines 890-896 and 909-912: sendResponse; the response to
\* a request of the tab is on its way
SendResponse ==
  /\ sendResponse
  /\ requests' = [r \in Requests |->
       IF requests[r].pc = "handling"
       THEN [requests[r] EXCEPT !.pc = "responded", !.response = ResponseOf(calls[1])]
       ELSE requests[r]]
  /\ UNCHANGED <<ruleCacheStore, preserveRuleStore, contentRules>>

\* getRuleSet, lines 393-423: the response reaches the content script
ResponseArrives(r) ==
  /\ AtRest
  /\ requests[r].pc = "responded"
  /\ Returns(r, requests[r], getRuleSet(requests[r], requests[r].response))
  /\ UNCHANGED background

\* getRuleSet, lines 393-423: the request is rejected (no service worker
\* to receive it) or is never answered
MessageFails(r, response) ==
  /\ AtRest
  /\ requests[r].pc = "sent"
  /\ Returns(r, requests[r], getRuleSet(requests[r], response))
  /\ UNCHANGED background

\* The RULES_UPDATED listeners of the tab, in the order they were added:
\* shared.js (lines 363-371) drops the memo and the preserve entries, then
\* the consumer of the category reloads (cookies.js:447-449,
\* unnamed/part_002:472-475, ad_overlay_blocker.js:391-395) with the
\* getRuleSet call of slot r.  `data` is the payload of the update: a
\* response on its way to the tab with another payload is from before it.
OnRulesUpdated(category, r, data) ==
  LET reloads == category # "preserveList" \/ preserveRuleStore.loadingPromise = 0
      req == [IdleRequest EXCEPT !.rule = category, !.now = now, !.update = data,
                !.forceRefresh = IF category = "preserveList"
                                 THEN ForceRefreshOf(JBool(TRUE)) ELSE TRUE]
  IN /\ FreeSlot(r)
     /\ ruleCacheStore' = [ruleCacheStore EXCEPT ![category] = NoEntry]
     /\ requests' = [q \in Requests |->
          IF q = r /\ reloads THEN [req EXCEPT !.pc = "sent"]
          ELSE IF /\ requests[q].pc = "responded"
                  /\ requests[q].rule = category
                  /\ requests[q].response.success
                  /\ requests[q].response.rule # data
          THEN [requests[q] EXCEPT !.pre = TRUE]
          ELSE requests[q]]
     /\ preserveRuleStore' =
          IF category = "preserveList"
          THEN [entries |-> <<>>, lastLoadedAt |-> 0,
                loadingPromise |-> IF reloads THEN r ELSE preserveRuleStore.loadingPromise]
          ELSE preserveRuleStore
     /\ UNCHANGED contentRules

\* broadcastRuleUpdate, lines 634-641, and the tab: the message reaches the
\* content scripts unless the delivery to the tab fails
RulesUpdated(failing) ==
  /\ broadcastRuleUpdate(1, failing)
  /\ IF ThisTab \in failing THEN UNCHANGED client
     ELSE \E r \in Requests :
            OnRulesUpdated(calls[1].message.category, r, calls[1].record.data)

\* While a tab is followed the CDN publishes release 2: its manifest is the
\* one of release 2, and a rule file is the one of release 2 or, from a
\* node that lags behind, still the one of release 1
ContentManifests == {ManifestFor(2)}
ContentBodies == {"release1", "release2"}

\* A tab with the content scripts of one category, the service worker, and
\* the other consumers of the category
NextContent ==
  \/ \E r \in Requests, c \in Categories, f \in BOOLEAN : LoadRules(r, c, f)
  \/ \E r \in Requests, o \in PreserveOptions : LoadPreserveRules(r, o)
  \/ \E r \in Requests : OnGetRuleSet(r)
  \/ \E c \in Categories : StartAlone(c, TRUE)
  \/ \E i \in Calls : LoadStorage(i)
  \/ \E i \in Calls : ManifestCache(i)
  \/ \E i \in Calls, m \in ContentManifests : FetchManifest(i, m)
  \/ \E i \in Calls, k \in ContentBodies : FetchRule(i, k)
  \/ \E i \in Calls : SaveRule(i)
  \/ \E i \in Calls : QueryTabs(i)
  \/ \E failing \in {{}, {ThisTab}} : RulesUpdated(failing)
  \/ \E i \in Calls : SaveStale(i)
  \/ \E i \in Calls, k \in {"packaged", "missing"} : LoadFallback(i, k)
  \/ \E i \in Calls : SaveFallback(i)
  \/ SendResponse
  \/ \E r \in Requests : ResponseArrives(r)
  \/ \E r \in Requests, a \in {Rejected, NoResponse} : MessageFails(r, a)

InitContent ==
  /\ Fresh
  /\ \E c \in {"cookiePatterns", "killList", "preserveList"} : served = {c}
  /\ Injected
  /\ sweep = NoSweep

SpecContent == InitContent /\ [][NextContent]_vars

(***************************************************************************)
(* The preserve list in the content script                                 *)
(***************************************************************************)
\* The combined list of a normalized preserve-list payload
PreserveCombined(payload) == Get(Get(payload, "entries"), "combined")

\* The loadPreserveRules calls that have completed with a payload whose
\* combined list is not empty, the store not having been invalidated since
LoadedPreserve ==
  {r \in Requests :
     /\ requests[r].pc = "returned"
     /\ requests[r].rule = "preserveList"
     /\ preserveRuleStore.lastLoadedAt # 0
     /\ IsArr(PreserveCombined(requests[r].result))
     /\ Len(PreserveCombined(requests[r].result).v) > 0}

\* C27: once loadPreserveRules has completed with the background's
\* normalized preserve list, whose combined list is not empty, the entries
\* of the preserve store are the entries of that combined list, at the
\* first load and at the reload after RULES_UPDATED alike.
C27_PreserveStoreHoldsCombined ==
  \A r \in LoadedPreserve :
    preserveRuleStore.entries = PreserveCombined(requests[r].result).v

(***************************************************************************)
(* The memo of getRuleSet and RULES_UPDATED                                *)
(***************************************************************************)
\* The getRuleSet calls that the memo has answered
MemoAnswered == {r \in Requests : requests[r].pc = "returned" /\ requests[r].path = "memo"}

\* C28: once the tab has received RULES_UPDATED for a category, no later
\* getRuleSet without forceRefresh is answered from the memo with the
\* payload the update replaced, also when a response that left the
\* background before the update arrives after the message.
C28_MemoNeverPreUpdate ==
  \A r \in MemoAnswered : ~requests[r].pre

(***************************************************************************)
(* getRuleSet fails open                                                   *)
(***************************************************************************)
\* The getRuleSet calls that have returned
ReturnedRequests == {r \in Requests : requests[r].pc = "returned"}

\* The consumer of the rule works with no rules
RunsEmpty(rule) ==
  CASE rule = "cookiePatterns" -> contentRules.cookies = NoCookieRules
    [] rule = "killList" -> contentRules.KILLLIST = EMPTY_KILL_LIST
    [] rule = "preserveList" -> preserveRuleStore.entries = <<>>
    [] OTHER -> TRUE

\* C29: getRuleSet never throws for a rule name: when the request fails or
\* the background answers success = false, it returns the payload that was
\* memoized when it was called, or null when there was none, and with null
\* the consumer of the category works with empty rules.
C29_GetRuleSetFailsOpen ==
  \A r \in ReturnedRequests :
    LET req == requests[r]
    IN /\ req.path \in {"memo", "response", "stale", "null"}
       /\ req.path \in {"memo", "response"} => Truthy(req.result)
       /\ (req.path # "memo" /\ ~req.response.success) =>
            /\ req.path \in {"stale", "null"}
            /\ req.result = IF req.cached # NoEntry THEN req.cached.data ELSE JNull
       /\ req.result = JNull => RunsEmpty(req.rule)

\* C29 happens: the background has answered success = false to a call made
\* without a memoized payload, the call has returned null and the consumer
\* works with empty rules
C29_Witness ==
  \E r \in ReturnedRequests :
    /\ requests[r].response # NoResponse
    /\ ~requests[r].response.success
    /\ requests[r].cached = NoEntry
    /\ requests[r].result = JNull
    /\ RunsEmpty(requests[r].rule)

(***************************************************************************)
(* The digest of the bytes of a response                                   *)
(***************************************************************************)
\* U+FFFD, which the UTF-8 decoder of response.text() puts in the place of
\* every byte that is not part of a well-formed sequence
REPLACEMENT_CHARACTER == 65533

\* length of the longest response body
MaxBytes == 2

\* The bytes of the bodies: the letters A and B, and 0xFE and 0xFF, which
\* occur in no well-formed UTF-8 sequence
SampleBytes == {65, 66, 254, 255}
ByteStrings == UNION {[1..n -> SampleBytes] : n \in 0..MaxBytes}

\* response.text() (line 542) on these bytes: the code points of the text
Utf8Decode(bytes) ==
  [k \in 1..Len(bytes) |-> IF bytes[k] < 128 THEN bytes[k] ELSE REPLACEMENT_CHARACTER]

\* The character with the given code point, written as a string
CharOf(cp) ==
  CASE cp = 65 -> "A"
    [] cp = 66 -> "B"
    [] cp = REPLACEMENT_CHARACTER -> "<U+FFFD>"

RECURSIVE StringOfChars(_)
StringOfChars(chars) ==
  IF chars = <<>> THEN "" ELSE CharOf(Head(chars)) \o StringOfChars(Tail(chars))

\* rawText = await response.text() for a body of the given bytes; no such
\* text is JSON
ResponseText(bytes) == InvalidJSON("text:" \o StringOfChars(Utf8Decode(bytes)))

RECURSIVE BytesName(_)
\* A name for a byte string
BytesName(bytes) ==
  IF bytes = <<>> THEN "bytes" ELSE BytesName(SubSeq(bytes, 1, Len(bytes) - 1))
                                    \o ":" \o ToString(bytes[Len(bytes)])

\* The manifest that lists, for every category, the digest of a file of
\* the given bytes
ManifestOfBytes(bytes) ==
  JObj(<< <<"version", JStr("1")>>,
          <<"files", JObj([k \in 1..Len(RULE_CATEGORIES) |->
               <<RULE_CATEGORIES[k],
                 FileInfo(RULE_CATEGORIES[k], JStr(computeSHA256(ResponseText(bytes))))>>])>> >>)

\* The rule request of call i is answered with a body of the given bytes
FetchRuleBytes(i, bytes) ==
  BodyArrives(i, calls[i], calls[i].category, BytesName(bytes),
              RuleFromBody(calls[i], ResponseText(bytes)))

\* A service worker that starts for the first time
InitBytes ==
  /\ Fresh
  /\ served = {"aiTerms"}
  /\ Injected
  /\ sweep = NoSweep

\* retrieveRule up to the answer of the rule request: the manifest lists
\* the digest of one byte string, the body is another or the same
NextBytes ==
  \/ \E c \in Categories, f \in BOOLEAN : StartAlone(c, f)
  \/ \E i \in Calls : LoadStorage(i)
  \/ \E i \in Calls : ManifestCache(i)
  \/ \E i \in Calls, published \in ByteStrings : FetchManifest(i, ManifestOfBytes(published))
  \/ \E i \in Calls, bytes \in ByteStrings : FetchRuleBytes(i, bytes)

SpecBytes == InitBytes /\ [][NextBytes]_vars

\* One byte of b was replaced by another to give mutated
SingleByteMutation(b, mutated) ==
  /\ Len(mutated) = Len(b)
  /\ Cardinality({k \in 1..Len(b) : mutated[k] # b[k]}) = 1

\* The integrity check of the call let the body through
Accepted(cl) == cl.cdnError # IntegrityError(cl.category)

\* C30: the integrity check accepts a body exactly when its digest is the
\* expected one: it accepts the bytes b against the digest of b, and it
\* rejects against the digest of b every byte string that differs from b in
\* one byte.
C30_DigestSensitivity ==
  \A i \in FailedOnBody : \A b \in ByteStrings, received \in ByteStrings :
    (/\ calls[i].expectedHash = JStr(computeSHA256(ResponseText(b)))
     /\ calls[i].body = BytesName(received))
    => /\ received = b => Accepted(calls[i])
       /\ SingleByteMutation(b, received) => ~Accepted(calls[i])


(***************************************************************************)
(* Two categories served side by side                                      *)
(***************************************************************************)
\* The service worker serves both categories of ServedCategories
InitPair ==
  /\ Fresh
  /\ served = ServedCategories
  /\ Injected
  /\ sweep = NoSweep

\* What the network answers while two categories are served
PairManifests == {JErr("HTTP 503"), ManifestFor(1)}
PairBodies == {"release1", "release2"}

\* Calls for the two categories, under way at the same time
NextPair ==
  \/ \E i \in Calls, c \in Categories, f \in BOOLEAN : StartCall(i, c, f)
  \/ \E i \in Calls : LoadStorage(i)
  \/ \E i \in Calls : ManifestCache(i)
  \/ \E i \in Calls, r \in PairManifests : FetchManifest(i, r)
  \/ \E i \in Calls, k \in PairBodies : FetchRule(i, k)
  \/ \E i \in Calls : SaveRule(i)
  \/ \E i \in Calls : QueryTabs(i)
  \/ \E i \in Calls, failing \in {{}, {ThisTab}} : SendMessages(i, failing)
  \/ \E i \in Calls : SaveStale(i)
  \/ \E i \in Calls, k \in FallbackKinds : LoadFallback(i, k)
  \/ \E i \in Calls : SaveFallback(i)
  \/ Respond

SpecPair == InitPair /\ [][NextPair]_vars

\* The categories of the calls that take part in the step
ActingCategories ==
  {calls[i].category : i \in {j \in Calls : calls'[j] # calls[j]}}
    \cup {calls'[i].category : i \in {j \in Calls : calls'[j] # calls[j]}}

\* The step leaves the entries of category d alone
EntriesUnchanged(d) ==
  /\ inMemoryRuleCache'[d] = inMemoryRuleCache[d]
  /\ pendingRuleFetches'[d] = pendingRuleFetches[d]
  /\ storage'[d] = storage[d]

\* The RULES_UPDATED messages of the calls name the category of the call
MessagesNameCategory ==
  \A i \in Calls :
    calls[i].message # NoMessage =>
      /\ calls[i].message.type = "RULES_UPDATED"
      /\ calls[i].message.category = calls[i].category

\* C31: a retrieveRule call for category c reads and writes only c's
\* in-memory entry, c's pending-fetch entry and c's storage key: a step of
\* the calls leaves the in-memory record, the pending entry and the stored
\* record of every category without a call in the step unchanged, and a
\* RULES_UPDATED message a call emits names the call's category.
C31_OnlyOwnCategory ==
  [][/\ \A d \in Categories : d \notin ActingCategories => EntriesUnchanged(d)
     /\ MessagesNameCategory']_vars

\* A call has replaced the record of its category and announced it, while
\* another category holds the record of another release, in memory and in
\* storage
C31_Witness ==
  \E i \in Calls, d \in Categories :
    /\ calls[i].pc = "done"
    /\ calls[i].sent > 0
    /\ calls[i].message.category = calls[i].category
    /\ d # calls[i].category
    /\ inMemoryRuleCache[d] # NoRecord
    /\ storage[d] # NoRecord
    /\ inMemoryRuleCache[calls[i].category] # NoRecord
    /\ inMemoryRuleCache[d].bytes # inMemoryRuleCache[calls[i].category].bytes
    /\ storage[d].bytes # storage[calls[i].category].bytes

(***************************************************************************)
(* The consumer that reacts to RULES_UPDATED                               *)
(***************************************************************************)
\* The getRuleSet calls made in reaction to a RULES_UPDATED message that
\* the background has answered with a payload
ReactionsAnswered ==
  {r \in Requests : /\ requests[r].pc = "responded"
                    /\ requests[r].update # JUndef
                    /\ requests[r].response.success}

\* The response carries a record downloaded without failure
FreshDownload(response) == response.source = "cdn" /\ response.lastError = JNull

\* C32: RULES_UPDATED is broadcast after the new record is in the in-memory
\* cache and in storage, so a consumer that reacts to the message by
\* requesting the category receives the payload of the update or one
\* downloaded since, never another one.
C32_ReactionGetsUpdate ==
  \A r \in ReactionsAnswered :
    \/ requests[r].response.rule = requests[r].update
    \/ FreshDownload(requests[r].response)

(***************************************************************************)
(* refreshAllRules and FORCE_RULE_REFRESH_ALL                              *)
(***************************************************************************)
\* number of sweeps a run starts
MaxSweeps == 1

\* refreshAllRules, lines 728-730: the loop starts and calls retrieveRule
\* for the first category
refreshAllRules(i, forceRefresh) ==
  /\ Quiet
  /\ sweep.index = 0
  /\ sweep.runs < MaxSweeps
  /\ Categories \subseteq served
  /\ calls[i].pc = "idle"
  /\ \A j \in 1..(i - 1) : calls[j].pc # "idle"
  /\ calls' = [calls EXCEPT ![i] =
       CallStart(RULE_CATEGORIES[1], forceRefresh, inMemoryRuleCache[RULE_CATEGORIES[1]])]
  /\ sweep' = [index |-> 1, slot |-> i, forceRefresh |-> forceRefresh, attempts |-> <<>>,
               response |-> NoResponse, runs |-> sweep.runs + 1]
  /\ UNCHANGED <<now, inMemoryRuleCache, pendingRuleFetches, storage, indexCache,
                 ticks, restarts, served, client>>

\* FORCE_RULE_REFRESH_ALL, lines 900-901: await refreshAllRules(true)
ForceRuleRefreshAll(i) == refreshAllRules(i, TRUE)

\* What the sweep keeps of a retrieveRule call that returned or threw
Attempt(cl) ==
  [category |-> cl.category, forceRefresh |-> cl.forceRefresh, outcome |-> cl.pc,
   path |-> cl.path]

\* A refreshAllRules without the try/catch around retrieveRule: the error of
\* a category ends the sweep and reaches the catch of the message handler
RefreshStopsOnError(i) ==
  LET cl == calls[i]
      next == sweep.index + 1
      attempts == Append(sweep.attempts, Attempt(cl))
  IN /\ sweep.index > 0
     /\ i = sweep.slot
     /\ cl.pc \in {"done", "failed"}
     /\ IF cl.pc = "failed"
        THEN /\ calls' = [calls EXCEPT ![i] = IdleCall]
             /\ sweep' = [sweep EXCEPT !.index = 0, !.slot = 0, !.attempts = attempts,
                                       !.response = [success |-> FALSE]]
        ELSE IF next <= Len(RULE_CATEGORIES)
        THEN /\ calls' = [calls EXCEPT ![i] =
                  CallStart(RULE_CATEGORIES[next], sweep.forceRefresh,
                            inMemoryRuleCache[RULE_CATEGORIES[next]])]
             /\ sweep' = [sweep EXCEPT !.index = next, !.attempts = attempts]
        ELSE /\ calls' = [calls EXCEPT ![i] = IdleCall]
             /\ sweep' = [sweep EXCEPT !.index = 0, !.slot = 0, !.attempts = attempts,
                                       !.response = [success |-> TRUE]]
     /\ UNCHANGED <<now, inMemoryRuleCache, pendingRuleFetches, storage, indexCache,
                    ticks, restarts, served, client>>

\* refreshAllRules, lines 729-735: the retrieveRule call of the loop has
\* returned or thrown (the error is logged); the loop calls retrieveRule for
\* the next category, or is over, and then the handler answers (line 902)
RefreshNext(i) ==
  LET cl == calls[i]
      next == sweep.index + 1
      attempts == Append(sweep.attempts, Attempt(cl))
  IN /\ sweep.index > 0
     /\ i = sweep.slot
     /\ cl.pc \in {"done", "failed"}
     /\ IF next <= Len(RULE_CATEGORIES)
        THEN /\ calls' = [calls EXCEPT ![i] =
                  CallStart(RULE_CATEGORIES[next], sweep.forceRefresh,
                            inMemoryRuleCache[RULE_CATEGORIES[next]])]
             /\ sweep' = [sweep EXCEPT !.index = next, !.attempts = attempts]
        ELSE /\ calls' = [calls EXCEPT ![i] = IdleCall]
             /\ sweep' = [sweep EXCEPT !.index = 0, !.slot = 0, !.attempts = attempts,
                                       !.response = [success |-> TRUE]]
     /\ UNCHANGED <<now, inMemoryRuleCache, pendingRuleFetches, storage, indexCache,
                    ticks, restarts, served, client>>

\* The service worker serves all categories
InitSweep ==
  /\ Fresh
  /\ served = Categories
  /\ Injected
  /\ sweep = NoSweep

\* What the network answers during a sweep, and the consumers that ask
\* meanwhile
SweepManifests == {ManifestFor(1)}
SweepBodies == {"release1", "garbage"}
SweepConsumers == {"aiWidgetSelectors"}

\* A sweep over the categories, with GET_RULE_SET requests meanwhile
NextSweep ==
  \/ \E i \in Calls : ForceRuleRefreshAll(i)
  \/ \E i \in Calls : RefreshNext(i)
  \/ \E i \in Calls, c \in SweepConsumers, f \in BOOLEAN : StartCall(i, c, f)
  \/ \E i \in Calls : LoadStorage(i)
  \/ \E i \in Calls : ManifestCache(i)
  \/ \E i \in Calls, r \in SweepManifests : FetchManifest(i, r)
  \/ \E i \in Calls, k \in SweepBodies : FetchRule(i, k)
  \/ \E i \in Calls : SaveRule(i)
  \/ \E i \in Calls : QueryTabs(i)
  \/ \E i \in Calls : SendMessages(i, {})
  \/ \E i \in Calls : SaveStale(i)
  \/ \E i \in Calls, k \in {"packaged", "missing"} : LoadFallback(i, k)
  \/ \E i \in Calls : SaveFallback(i)
  \/ Respond

SpecSweep == InitSweep /\ [][NextSweep]_vars

\* The sweep is over
SweepFinished == sweep.runs > 0 /\ sweep.index = 0

\* C33: refreshAllRules attempts the five categories in order, also after
\* retrieveRule has failed for some of them; the sweep of
\* FORCE_RULE_REFRESH_ALL calls retrieveRule with forceRefresh for every
\* category, so that each call runs the fetch operation or joins the one in
\* flight, and once the sweep has finished the handler has answered
\* success = true.
C33_SweepCoversAll ==
  /\ \A k \in 1..Len(sweep.attempts) :
       /\ sweep.attempts[k].category = RULE_CATEGORIES[k]
       /\ sweep.attempts[k].forceRefresh
       /\ sweep.attempts[k].path \in {"fetch", "join"}
  /\ sweep.index > 0 =>
       /\ Len(sweep.attempts) = sweep.index - 1
       /\ calls[sweep.slot].category = RULE_CATEGORIES[sweep.index]
       /\ calls[sweep.slot].forceRefresh
  /\ SweepFinished =>
       /\ Len(sweep.attempts) = Len(RULE_CATEGORIES)
       /\ sweep.response = [success |-> TRUE]

\* A sweep has finished in which retrieveRule failed for a category that
\* is not the last and succeeded for a later one
C33_Witness ==
  /\ SweepFinished
  /\ sweep.response.success
  /\ \E k \in 1..Len(sweep.attempts), l \in 1..Len(sweep.attempts) :
       /\ k < l
       /\ sweep.attempts[k].outcome = "failed"
       /\ sweep.attempts[l].outcome = "done"

(***************************************************************************)
(* Broadcasts and changes of the cached payload                            *)
(***************************************************************************)
\* How often the call has changed the cached payload of its category: once
\* when the record it downloaded replaced another payload (or none), the
\* two compared as retrieveRule compares payloads (deepEqual, line 673)
PayloadChanges(cl) ==
  IF cl.via = "cdn" /\ (cl.replaced = JNull \/ ~deepEqual(cl.replaced, cl.record.data))
  THEN 1 ELSE 0

\* The call compares with the payload it read from the in-memory cache when
\* it was made, another one than storage held when its storage read answered
PriorFromMemory(cl) ==
  /\ Truthy(cl.priorData)
  /\ cl.storedRecord # NoRecord
  /\ cl.priorData # cl.storedRecord.data

\* C34: under any interleaving of overlapping retrieveRule calls for one
\* category, forced calls that read the in-memory record before another
\* fetch replaced it included, the RULES_UPDATED broadcasts of a call never
\* outnumber the changes it made to the cached payload: one change of the
\* remote content is announced once.  (Stated for the calls that read
\* the in-memory record before another call replaced it.)
C34_BroadcastsWithinChanges ==
  \A i \in Calls :
    PriorFromMemory(calls[i]) => calls[i].sent <= PayloadChanges(calls[i])

(***************************************************************************)
(* verified and the integrity check                                        *)
(***************************************************************************)
\* The records in the in-memory cache and in storage
CachedRecords ==
  {inMemoryRuleCache[c] : c \in Categories} \cup {storage[c] : c \in Categories}

\* The digest of the bytes the record was parsed from is the one the
\* manifest listed for it
DigestChecked(r) == IsStr(r.hash) /\ r.hash.v = DigestOfBytes(r.bytes)

\* C35: a cached record has verified = true only if the digest of the
\* fetched bytes was computed and equals the digest the manifest expects; a
\* manifest entry whose sha256 is missing or empty yields no cached record
\* that is marked verified.
C35_VerifiedOnlyIfChecked ==
  \A r \in CachedRecords :
    (r # NoRecord /\ r.verified = JBool(TRUE)) => DigestChecked(r)

(***************************************************************************)
(* Failures after the download                                             *)
(***************************************************************************)
\* saveRuleToStorage, lines 455-464, called at line 671: the write is
\* rejected (the quota of chrome.storage.local is used up); the rejection is
\* caught by the catch of the CDN attempt (line 679)
SaveRuleFails(i) ==
  /\ Quiet
  /\ calls[i].pc = "saveRule"
  /\ FetchStep(i, CdnFailure(calls[i], "QUOTA_BYTES quota exceeded",
                             inMemoryRuleCache[calls[i].category]))
  /\ UNCHANGED <<now, pendingRuleFetches, storage, indexCache, ticks, restarts, served,
                 client, sweep>>

\* broadcastRuleUpdate, line 626, called at line 674: chrome.tabs.query is
\* rejected; nothing in broadcastRuleUpdate catches it, and it reaches the
\* catch of the CDN attempt (line 679)
QueryTabsFails(i) ==
  /\ Quiet
  /\ calls[i].pc = "queryTabs"
  /\ FetchStep(i, CdnFailure(calls[i], "Tabs cannot be queried right now",
                             inMemoryRuleCache[calls[i].category]))
  /\ UNCHANGED <<now, pendingRuleFetches, storage, indexCache, ticks, restarts, served,
                 client, sweep>>

\* What the network answers while the steps after the download can fail
FaultManifests == {JErr("HTTP 503"), ManifestFor(1)}
FaultBodies == {"release1", "release2"}

\* Calls for one category whose save or broadcast can fail
NextFaults ==
  \/ \E i \in Calls, c \in Categories, f \in BOOLEAN : StartCall(i, c, f)
  \/ \E i \in Calls : LoadStorage(i)
  \/ \E i \in Calls : ManifestCache(i)
  \/ \E i \in Calls, r \in FaultManifests : FetchManifest(i, r)
  \/ \E i \in Calls, m \in {"HTTP 503"} : FetchRuleFails(i, m)
  \/ \E i \in Calls, k \in FaultBodies : FetchRule(i, k)
  \/ \E i \in Calls : SaveRule(i)
  \/ \E i \in Calls : SaveRuleFails(i)
  \/ \E i \in Calls : QueryTabs(i)
  \/ \E i \in Calls : QueryTabsFails(i)
  \/ \E i \in Calls, failing \in SUBSET Tabs : SendMessages(i, failing)
  \/ \E i \in Calls : SaveStale(i)
  \/ \E i \in Calls, k \in {"packaged", "missing"} : LoadFallback(i, k)
  \/ \E i \in Calls : SaveFallback(i)
  \/ Respond

SpecFaults == Init /\ [][NextFaults]_vars

\* The positions of a call after its download was placed in the in-memory
\* cache: the save and the broadcast
AfterDownloadPcs == {"saveRule", "queryTabs", "sendMessages"}

\* Call i takes a step after its download
StepAfterDownload(i) == calls[i].pc \in AfterDownloadPcs /\ calls'[i] # calls[i]

\* C36: once the downloaded record is in the in-memory cache, whatever the
\* save and the broadcast that follow do, the call leaves that record in
\* the in-memory cache: a failure of one of the two steps does not put the
\* older stored record or the packaged fallback in its place.
C36_DownloadStaysCached ==
  [][\A i \in Calls :
       StepAfterDownload(i) =>
         /\ inMemoryRuleCache'[calls[i].category] = calls[i].record
         /\ calls'[i].pc # "loadFallback"]_vars

(***************************************************************************)
(* Locale groups with the same key                                         *)
(***************************************************************************)
\* The locale names and the entries of the groups of a rule file
GroupLocales == <<"en", "EN", "fr">>
GroupEntries == <<Entry("#ad"), Entry("#promo")>>

\* One locale group of the kill list (entries) or of the preserve list
\* (elements) with one entry
GroupOf(category, locale, entry) ==
  JObj(<< <<"locale", JStr(locale)>>,
          <<(IF category = "killList" THEN "entries" ELSE "elements"), JArr(<<entry>>)>> >>)

\* The rule files with two locale groups: f = <<locale and entry of the
\* first group, locale and entry of the second>>
GroupFiles ==
  (1..Len(GroupLocales)) \X (1..Len(GroupEntries))
    \X (1..Len(GroupLocales)) \X (1..Len(GroupEntries))

GroupsDoc(category, f) ==
  JObj(<< <<"version", JStr("2.0.0")>>,
          <<(IF category = "killList" THEN "ads" ELSE "entries"),
            JArr(<< GroupOf(category, GroupLocales[f[1]], GroupEntries[f[2]]),
                    GroupOf(category, GroupLocales[f[3]], GroupEntries[f[4]]) >>)>> >>)

GroupsText(category, f) ==
  Text(category \o "@groups-" \o ToString(f[1]) \o ToString(f[2]) \o ToString(f[3])
         \o ToString(f[4]),
       GroupsDoc(category, f))

\* The file with the given bytes
GroupFileOf(category, body) ==
  CHOOSE f \in GroupFiles : GroupsText(category, f).id = body

\* retrieveRule up to the answer of the rule request, which is one of the
\* rule files with two locale groups
NextGroups ==
  \/ \E c \in Categories, f \in BOOLEAN : StartAlone(c, f)
  \/ \E i \in Calls : LoadStorage(i)
  \/ \E i \in Calls : ManifestCache(i)
  \/ \E i \in Calls, r \in ManifestResponses : FetchManifest(i, r)
  \/ \E i \in Calls, c \in {"killList", "preserveList"}, f \in GroupFiles :
       /\ calls[i].category = c
       /\ FetchRuleText(i, GroupsText(c, f))

SpecGroups == InitEntries /\ [][NextGroups]_vars

\* How often the value occurs in the sequence
Occurrences(seq, val) == Cardinality({k \in 1..Len(seq) : seq[k] = val})

\* The calls whose rule file was downloaded and normalized
Normalized == {i \in Calls : calls[i].pc = "saveRule" /\ calls[i].body # ""}

\* C37: normalization of the kill list and of the preserve list loses no
\* valid entry: every entry of the file with a non-empty selector is in the
\* combined list exactly once, also when two locale groups of the file have
\* the same upper-cased locale key.
C37_NoEntryLost ==
  \A i \in Normalized :
    LET cl == calls[i]
        f == GroupFileOf(cl.category, cl.body)
        input == <<JStr(SelectorOf(GroupEntries[f[2]])), JStr(SelectorOf(GroupEntries[f[4]]))>>
    IN \A k \in 1..Len(GroupEntries) :
         Occurrences(SelectorsOf(PrimaryList(cl.category, cl.record.data)),
                     JStr(SelectorOf(GroupEntries[k])))
           = Occurrences(input, JStr(SelectorOf(GroupEntries[k])))

(***************************************************************************)
(* The in-memory cache and storage at rest                                 *)
(***************************************************************************)
\* No retrieveRule call for the category is under way
NoCallFor(c) == \A i \in Calls : calls[i].category # c

\* The two records are the same download: same source, same fetchedAt and
\* a payload parsed from the same bytes (a payload that differs only by the
\* second normalization of loadRuleFromStorage counts as the same)
SameDownload(a, b) ==
  /\ a.source = b.source
  /\ a.fetchedAt = b.fetchedAt
  /\ a.bytes = b.bytes

\* C38: whenever no operation is in flight for a category, the record in
\* the in-memory cache, if there is one, and the record in storage carry
\* the same data, source and fetchedAt.
C38_MemoryMatchesStorage ==
  \A c \in Categories :
    (NoCallFor(c) /\ inMemoryRuleCache[c] # NoRecord)
      => /\ storage[c] # NoRecord
         /\ SameDownload(inMemoryRuleCache[c], storage[c])

=========================================================================
